---- MODULE Spec2Model ----
(***************************************************************************)
(* Model of the FGFDMExec binding generator (scripts/bindings-generator)   *)
(* and of the ergonomic wrapper class it emits.                            *)
(*                                                                         *)
(* Identifiers are sequences of one-character strings, so that the         *)
(* tokenizer of toCamelCaseName works on characters as the regular         *)
(* expression of the source does.  C++ type spellings are kept in token    *)
(* form: [const, enumKw, path, ind] where path is the sequence of the      *)
(* "::"-separated name segments and ind is "", "&" or "*".                 *)
(***************************************************************************)
EXTENDS Integers, Sequences, FiniteSets, TLC

VARIABLES
  env,          \* what the run finds: "ok", "noHeader", "noAst", "noClass"
  classNode,    \* children (node.inner) of the class definition in the AST
  filesBefore,  \* the three output paths as they were when the run started
  files,        \* the three output paths now
  pc,           \* next statement of generateBindings
  err,          \* the error that aborted the run, or "none"
  methods,      \* result of extractPublicMethodsFromClass
  typeMetadata, \* result of buildTypeMetadata
  cppOut,       \* rendered native wrapper source
  tsOut,        \* rendered raw interface
  sdkApiOut,    \* rendered ergonomic wrapper class
  lastCall,     \* last call made on the ergonomic wrapper and what the raw object received
  tree,         \* headers of the library source tree (JSBSIM_SRC_DIR), in traversal order
  probes,       \* probe translation units compiled by buildTypeMetadata, in order
  run,          \* number of the run of generateBindings on this tree
  firstFiles,   \* the three output paths as the first run left them
  compilers,    \* what spawning each compiler of runClangAstDumpFromFile gives
  fsFailure,    \* the file-system call of runClangAstDumpFromSource that fails, if any
  tmpDirs,      \* temporary directories that exist
  probePc,      \* next statement of runClangAstDumpFromSource
  spawned,      \* compilers spawned by the call, in order
  probeResult,  \* what the call returned or threw
  output,       \* text handed to parseClangJsonOutput
  parsed,       \* what parseClangJsonOutput returned for it
  implementationAst, \* syntax tree the compiler dumps for the implementation file, if any
  idbfsSupport, \* hasIdbfsSupport(): indexedDB and the IDBFS file system exist
  idbMounted,   \* WasmVfsManager.idbMounted
  mountCount,   \* number of fs.mount calls made for IDBFS
  runtimeTree,  \* files below runtimeRoot, in memory
  mountTree,    \* files below idbMountPath, in memory
  store,        \* files in the persistent store behind the mount
  calls,        \* calls of the asynchronous methods of WasmVfsManager, in order
  createPc,     \* next statement of JSBSimSdk.create
  options,      \* the options JSBSimSdk.create was called with
  produced,     \* log entries the runtime has produced, in order
  bufferedLogEntries, \* entries create holds for the instance to come
  emitSdkLog,   \* whether create has set emitSdkLog
  dispatched,   \* entries handed to emitLogEntry of the instance, in order
  userSeen,     \* entries the onLog handler of the caller has received, in order
  replayed      \* number of entries create has replayed from bufferedLogEntries

\* state of the operations modelled on their own, outside generateBindings
vfsVars == <<idbfsSupport, idbMounted, mountCount, runtimeTree, mountTree, store, calls>>

sdkVars == <<createPc, options, produced, bufferedLogEntries, emitSdkLog, dispatched, userSeen,
            replayed>>

other == <<compilers, fsFailure, tmpDirs, probePc, spawned, probeResult, output, parsed,
          implementationAst, vfsVars, sdkVars>>

generatorVars == <<env, classNode, filesBefore, files, pc, err, methods, typeMetadata,
                   cppOut, tsOut, sdkApiOut, lastCall, tree, probes, run, firstFiles>>

vars == <<generatorVars, other>>

Null == "null"

----------------------------------------------------------------------------
(* Bounds of the model *)

MaxMembers == 3      \* members of the class definition
MaxOverloads == 2    \* overloads of one name in the overload specification
MaxParams == 2       \* parameters of a generated overload
MaxArgs == 5         \* arguments of a call on the wrapper
MaxHeaders == 2      \* headers of the library source tree
MaxPieces == 3       \* pieces of a text given to parseClangJsonOutput
MaxRuns == 2         \* runs of generateBindings on one tree

----------------------------------------------------------------------------
(* Sequence helpers *)

Range(s) == {s[i] : i \in 1..Len(s)}

RECURSIVE Concat(_)
Concat(ss) == IF ss = <<>> THEN <<>> ELSE Head(ss) \o Concat(Tail(ss))

Slice(s, from) == IF from > Len(s) THEN <<>> ELSE SubSeq(s, from, Len(s))

Prefix(s, n) == IF n <= 0 THEN <<>> ELSE SubSeq(s, 1, IF n > Len(s) THEN Len(s) ELSE n)

StartsWith(s, p) == Len(s) >= Len(p) /\ Prefix(s, Len(p)) = p

----------------------------------------------------------------------------
(* Characters *)

UpperChars == <<"A","B","C","D","E","F","G","H","I","J","K","L","M",
                "N","O","P","Q","R","S","T","U","V","W","X","Y","Z">>
LowerChars == <<"a","b","c","d","e","f","g","h","i","j","k","l","m",
                "n","o","p","q","r","s","t","u","v","w","x","y","z">>
DigitChars == {"0","1","2","3","4","5","6","7","8","9"}

IsUpper(c) == \E i \in DOMAIN UpperChars : UpperChars[i] = c
IsLower(c) == \E i \in DOMAIN LowerChars : LowerChars[i] = c
IsDigit(c) == c \in DigitChars

CharToLower(c) ==
  IF IsUpper(c) THEN LowerChars[CHOOSE i \in DOMAIN UpperChars : UpperChars[i] = c] ELSE c
CharToUpper(c) ==
  IF IsLower(c) THEN UpperChars[CHOOSE i \in DOMAIN LowerChars : LowerChars[i] = c] ELSE c

toLowerCase(s) == [i \in DOMAIN s |-> CharToLower(s[i])]

CharClass(c) ==
  IF IsUpper(c) THEN "U" ELSE IF IsLower(c) THEN "L" ELSE IF IsDigit(c) THEN "D" ELSE "?"

\* length of the maximal run of characters of class cls that starts at s[i]
RECURSIVE RunLen(_, _, _)
RunLen(s, i, cls) ==
  IF i > Len(s) \/ CharClass(s[i]) # cls THEN 0 ELSE 1 + RunLen(s, i + 1, cls)

----------------------------------------------------------------------------
(* toCamelCaseName *)

\* name.split(/_+/).filter(Boolean): the maximal underscore-free pieces
RECURSIVE SplitUnderscore(_, _)
SplitUnderscore(s, cur) ==
  IF s = <<>> THEN (IF cur = <<>> THEN <<>> ELSE <<cur>>)
  ELSE IF Head(s) = "_"
       THEN (IF cur = <<>> THEN <<>> ELSE <<cur>>) \o SplitUnderscore(Tail(s), <<>>)
       ELSE SplitUnderscore(Tail(s), Append(cur, Head(s)))

\* Length of the token the regular expression
\*   [A-Z]{2,}s(?=$|[A-Z_]) | [A-Z]+(?![a-z]) | [A-Z][a-z]* | [a-z]+ | [0-9]+
\* matches at position i of part s (0: no alternative matches there).
TokenLenAt(s, i) ==
  LET c == CharClass(s[i])
      u == RunLen(s, i, "U")
      after == i + u
  IN IF c = "U" THEN
       IF /\ u >= 2
          /\ after <= Len(s)
          /\ s[after] = "s"
          /\ (after = Len(s) \/ IsUpper(s[after + 1]) \/ s[after + 1] = "_")
         THEN u + 1
       ELSE IF after > Len(s) \/ ~IsLower(s[after]) THEN u
       ELSE IF u >= 2 THEN u - 1
       ELSE 1 + RunLen(s, i + 1, "L")
     ELSE IF c = "L" THEN RunLen(s, i, "L")
     ELSE IF c = "D" THEN RunLen(s, i, "D")
     ELSE 0

\* part.match(/.../g): the successive matches, scanning from position i
RECURSIVE MatchTokens(_, _)
MatchTokens(s, i) ==
  IF i > Len(s) THEN <<>>
  ELSE LET n == TokenLenAt(s, i)
       IN IF n = 0 THEN MatchTokens(s, i + 1)
          ELSE <<SubSeq(s, i, i + n - 1)>> \o MatchTokens(s, i + n)

PartTokens(part) ==
  LET m == MatchTokens(part, 1) IN IF m = <<>> THEN <<part>> ELSE m

RECURSIVE TokensOfParts(_)
TokensOfParts(parts) ==
  IF parts = <<>> THEN <<>> ELSE PartTokens(Head(parts)) \o TokensOfParts(Tail(parts))

splitFirstTokenForSetGet(tokens) ==
  IF tokens = <<>> THEN tokens
  ELSE LET firstLower == toLowerCase(Head(tokens))
           rest == [i \in 1..(Len(tokens) - 1) |-> toLowerCase(tokens[i + 1])]
       IN IF StartsWith(firstLower, <<"s","e","t">>) /\ Len(firstLower) > 3
            THEN <<(<<"s","e","t">>), Slice(firstLower, 4)>> \o rest
          ELSE IF StartsWith(firstLower, <<"g","e","t">>) /\ Len(firstLower) > 3
            THEN <<(<<"g","e","t">>), Slice(firstLower, 4)>> \o rest
          ELSE <<firstLower>> \o rest

splitNameIntoWords(name) ==
  SelectSeq(splitFirstTokenForSetGet(TokensOfParts(SplitUnderscore(name, <<>>))),
            LAMBDA w : w # <<>>)

Capitalize(word) ==
  IF word = <<>> THEN word ELSE <<CharToUpper(Head(word))>> \o Tail(word)

\* the name with only its first letter lowered
toCamelCaseNameLowerFirst(name) ==
  IF name = <<>> THEN name ELSE <<CharToLower(Head(name))>> \o Tail(name)

toCamelCaseName(name) ==
  LET words == splitNameIntoWords(name)
  IN IF words = <<>>
       THEN (IF name = <<>> THEN name ELSE <<CharToLower(Head(name))>> \o Tail(name))
       ELSE Head(words) \o Concat([i \in 1..(Len(words) - 1) |-> Capitalize(words[i + 1])])

----------------------------------------------------------------------------
(* Identifiers of the program and of the modelled class declarations *)

CLASS_NAME == <<"F","G","F","D","M","E","x","e","c">>
NS_JSBSim == <<"J","S","B","S","i","m">>

Id_std == <<"s","t","d">>
Id_string == <<"s","t","r","i","n","g">>
Id_SGPath == <<"S","G","P","a","t","h">>
Id_bool == <<"b","o","o","l">>
Id_void == <<"v","o","i","d">>
Id_int == <<"i","n","t">>
Id_double == <<"d","o","u","b","l","e">>
Id_unsigned_int == <<"u","n","s","i","g","n","e","d"," ","i","n","t">>
Id_vector_string == <<"v","e","c","t","o","r","<","s","t","d",":",":","s","t","r","i","n","g",">">>
Id_FGPropertyManager == <<"F","G","P","r","o","p","e","r","t","y","M","a","n","a","g","e","r">>

Id_Run == <<"R","u","n">>
Id_RunIC == <<"R","u","n","I","C">>
Id_LoadModel == <<"L","o","a","d","M","o","d","e","l">>
Id_Foo == <<"F","o","o">>
Id_foo == <<"f","o","o">>
Id_SetMode == <<"S","e","t","M","o","d","e">>
Id_eMode == <<"e","M","o","d","e">>
Id_tA == <<"t","A">>
Id_tB == <<"t","B">>
Id_tC == <<"t","C">>
Id_SetOutputFileName ==
  <<"S","e","t","O","u","t","p","u","t","F","i","l","e","N","a","m","e">>
Id_GetOutputFileName ==
  <<"G","e","t","O","u","t","p","u","t","F","i","l","e","N","a","m","e">>

\* the numeric type spellings of NUMERIC_TYPES that the modelled declarations use
NUMERIC_TYPES == {<<Id_int>>, <<Id_unsigned_int>>, <<Id_double>>}

DEFAULT_JSBSIM_API_IGNORE_METHODS == {Id_SetOutputFileName, Id_GetOutputFileName}

----------------------------------------------------------------------------
(* C++ type spellings in token form, and their classification *)

CType(const, path, ind) == [const |-> const, enumKw |-> FALSE, path |-> path, ind |-> ind]

T_void == CType(FALSE, <<Id_void>>, "")
T_bool == CType(FALSE, <<Id_bool>>, "")
T_int == CType(FALSE, <<Id_int>>, "")
T_double == CType(FALSE, <<Id_double>>, "")
T_string == CType(FALSE, <<Id_std, Id_string>>, "")
T_constStringRef == CType(TRUE, <<Id_std, Id_string>>, "&")
T_constSGPathRef == CType(TRUE, <<Id_SGPath>>, "&")
T_eMode == CType(FALSE, <<Id_eMode>>, "")
T_qualifiedEMode == CType(FALSE, <<NS_JSBSim, CLASS_NAME, Id_eMode>>, "")
T_handle == CType(FALSE, <<Id_FGPropertyManager>>, "*")

\* stripConstVolatile(type).replace(/[&*]/g, "").trim(): what is left is the
\* name path, preceded by "enum " when the spelling carries the keyword
BareIs(type, path) == ~type.enumKw /\ type.path = path

isBoolType(type) == BareIs(type, <<Id_bool>>)
isStringType(type) == BareIs(type, <<Id_std, Id_string>>)
isSGPathType(type) == BareIs(type, <<Id_SGPath>>)
isVectorOfStringType(type) == BareIs(type, <<Id_std, Id_vector_string>>)
isNumericType(type) == ~type.enumKw /\ type.path \in NUMERIC_TYPES
isPointerType(type) == type.ind = "*"
isReferenceType(type) == type.ind = "&"

\* normalizeEnumLookupName: const/volatile, "enum ", & and * removed
normalizeEnumLookupName(type) == type.path

RECURSIVE Dedup(_)
Dedup(s) ==
  IF s = <<>> THEN <<>>
  ELSE LET r == Dedup(Prefix(s, Len(s) - 1))
       IN IF s[Len(s)] \in Range(r) THEN r ELSE Append(r, s[Len(s)])

\* the spellings under which a type name is looked up, in insertion order
enumLookupVariants(type) ==
  LET base == normalizeEnumLookupName(type)
      inJSBSim == Len(base) >= 2 /\ base[1] = NS_JSBSim
      inClass == Len(base) >= 2 /\ base[1] = CLASS_NAME
      inJSBSimClass == Len(base) >= 3 /\ base[1] = NS_JSBSim /\ base[2] = CLASS_NAME
  IN IF base = <<>> THEN <<>>
     ELSE Dedup(
       <<base>>
       \o (IF inJSBSim THEN <<Tail(base)>> ELSE <<(<<NS_JSBSim>> \o base)>>)
       \o (IF inClass THEN <<(<<NS_JSBSim>> \o base)>> ELSE <<>>)
       \o (IF inJSBSimClass THEN <<Tail(base)>> ELSE <<>>)
       \o (IF Len(base) >= 2 THEN <<(<<base[Len(base)]>>)>> ELSE <<>>))

NoEnum == [kind |-> "none"]

\* a lookup that finds no spelling
resolveEnumInfoNeverFound(type, enumLookup) == NoEnum

\* enumLookup is a Map from spelling to definition: a function on the set of keys
resolveEnumInfo(type, enumLookup) ==
  LET vs == enumLookupVariants(type)
      hits == {i \in DOMAIN vs : vs[i] \in DOMAIN enumLookup}
  IN IF hits = {} THEN NoEnum
     ELSE enumLookup[vs[CHOOSE i \in hits : \A j \in hits : i <= j]]

\* target-language type names: a built-in name, or a reference to a generated type
TsBuiltin(n) == [builtin |-> n, ref |-> <<>>]
TsRef(name) == [builtin |-> "", ref |-> name]

toTsType(type, enumLookup, isReturn) ==
  LET enumInfo == resolveEnumInfo(type, enumLookup)
  IN IF enumInfo # NoEnum THEN TsRef(enumInfo.tsName)
     ELSE IF type = T_void THEN TsBuiltin("void")
     ELSE IF isBoolType(type) THEN TsBuiltin("boolean")
     ELSE IF isNumericType(type) THEN TsBuiltin("number")
     ELSE IF isStringType(type) \/ isSGPathType(type) THEN TsBuiltin("string")
     ELSE IF isReturn /\ isVectorOfStringType(type) THEN TsBuiltin("string[]")
     ELSE TsBuiltin("number")

\* toTsType of the raw interface renderer: no enum lookup
rawToTsType(type, isReturn) ==
  IF type = T_void THEN TsBuiltin("void")
  ELSE IF isBoolType(type) THEN TsBuiltin("boolean")
  ELSE IF isNumericType(type) THEN TsBuiltin("number")
  ELSE IF isStringType(type) \/ isSGPathType(type) THEN TsBuiltin("string")
  ELSE IF isReturn /\ isVectorOfStringType(type) THEN TsBuiltin("string[]")
  ELSE TsBuiltin("number")

maybeLooksLikeEnumTypeName(type) ==
  LET simpleName == IF type.path = <<>> THEN <<>> ELSE type.path[Len(type.path)]
  IN /\ type.path # <<>>
     /\ type.path # <<Id_void>>
     /\ ~(\/ type.path = <<Id_bool>> \/ type.path \in NUMERIC_TYPES
          \/ type.path = <<Id_std, Id_string>> \/ type.path = <<Id_SGPath>>
          \/ type.path = <<Id_std, Id_vector_string>>)
     /\ ~(\E i \in DOMAIN type.path : "<" \in Range(type.path[i]))
     /\ \/ (Len(simpleName) >= 2 /\ simpleName[1] = "e" /\ IsUpper(simpleName[2]))
        \/ (Len(simpleName) >= 4 /\ Slice(simpleName, Len(simpleName) - 3) = <<"M","o","d","e">>)
        \/ (Len(simpleName) >= 4 /\ Slice(simpleName, Len(simpleName) - 3) = <<"T","y","p","e">>)

----------------------------------------------------------------------------
(* Class and method extraction (methods-from-ast.mjs).                      *)
(* AST nodes are records with a kind; the fields a node carries depend on   *)
(* its kind, as in the compiler's JSON.  Documentation comments only add    *)
(* comment lines to the output and are not modelled.                        *)

NoType == CType(FALSE, <<>>, "")     \* the empty type string
NoDefault == Null                    \* defaultValue === null

DigitSeq == <<"0","1","2","3","4","5","6","7","8","9">>

\* `${n}` for a natural number
RECURSIVE NatToChars(_)
NatToChars(n) ==
  IF n < 10 THEN <<DigitSeq[n + 1]>> ELSE NatToChars(n \div 10) \o <<DigitSeq[(n % 10) + 1]>>

\* /^[A-Za-z_][A-Za-z0-9_]*$/
IsIdentifier(name) ==
  /\ name # <<>>
  /\ (IsUpper(name[1]) \/ IsLower(name[1]) \/ name[1] = "_")
  /\ \A i \in DOMAIN name : IsUpper(name[i]) \/ IsLower(name[i]) \/ IsDigit(name[i]) \/ name[i] = "_"

\* the node's qualType up to its first "(" ; "" when there is none
inferReturnType(methodNode) ==
  IF ~methodNode.type.hasParen THEN NoType ELSE methodNode.type.ret

isPublicMethodNodeInAnyRegion(node, currentAccess) ==
  /\ node.kind = "CXXMethodDecl"
  /\ ~node.isImplicit
  /\ node.name # CLASS_NAME
  /\ node.name # <<"~">> \o CLASS_NAME

isPublicMethodNode(node, currentAccess) ==
  /\ currentAccess = "public"
  /\ node.kind = "CXXMethodDecl"
  /\ ~node.isImplicit
  /\ node.name # CLASS_NAME
  /\ node.name # <<"~">> \o CLASS_NAME

\* let suffix = 1 without the loop that looks for a free one
FirstSuffix(name, usedNames, suffix) == suffix

RECURSIVE FirstFreeSuffix(_, _, _)
FirstFreeSuffix(name, usedNames, suffix) ==
  IF (name \o <<"_">> \o NatToChars(suffix)) \in usedNames
    THEN FirstFreeSuffix(name, usedNames, suffix + 1)
    ELSE suffix

RECURSIVE NormalizeFrom(_, _, _)
NormalizeFrom(params, index, usedNames) ==
  IF index > Len(params) THEN <<>>
  ELSE LET param == params[index]
           base == IF IsIdentifier(param.name) THEN param.name
                   ELSE <<"a","r","g">> \o NatToChars(index - 1)
           name == IF base \in usedNames
                     THEN base \o <<"_">> \o NatToChars(FirstFreeSuffix(base, usedNames, 1))
                     ELSE base
       IN <<[param EXCEPT !.name = name]>>
          \o NormalizeFrom(params, index + 1, usedNames \cup {name})

normalizeParamNames(params) == NormalizeFrom(params, 1, {})

EXPR_WRAPPER_KINDS ==
  {"ExprWithCleanups", "MaterializeTemporaryExpr", "ImplicitCastExpr",
   "CXXBindTemporaryExpr", "CXXDefaultArgExpr", "ParenExpr"}

NoNode == [kind |-> "none"]

RECURSIVE unwrapExprNode(_)
unwrapExprNode(node) ==
  IF node.kind \in EXPR_WRAPPER_KINDS /\ node.inner # <<>>
    THEN unwrapExprNode(node.inner[1])
    ELSE node

\* first node in pre-order, the node itself included, that is a StringLiteral
RECURSIVE findStringLiteral(_)
RECURSIVE findStringLiteralIn(_)
findStringLiteral(node) ==
  IF node.kind = "StringLiteral" THEN node ELSE findStringLiteralIn(node.inner)
findStringLiteralIn(children) ==
  IF children = <<>> THEN NoNode
  ELSE LET match == findStringLiteral(Head(children))
       IN IF match # NoNode THEN match ELSE findStringLiteralIn(Tail(children))

\* literal values are the compiler's texts; the numeric ones it prints match
\* /^[-+]?\d+(\.\d+)?([eE][-+]?\d+)?$/
NumberTexts == {"0", "1", "2", "1.5"}
toNumberLiteral(value) == IF value \in NumberTexts THEN value ELSE Null

extractTsDefaultValueFromExpr(exprNode, paramType) ==
  IF exprNode = NoNode THEN NoDefault
  ELSE LET unwrapped == unwrapExprNode(exprNode)
           operand == IF unwrapped.kind = "UnaryOperator" /\ unwrapped.inner # <<>>
                        THEN unwrapExprNode(unwrapped.inner[1]) ELSE NoNode
           signed == IF operand.kind \in {"IntegerLiteral", "FloatingLiteral"}
                       THEN toNumberLiteral(operand.value) ELSE Null
           stringLiteralNode == findStringLiteral(unwrapped)
       IN IF unwrapped.kind = "CXXBoolLiteralExpr"
            THEN (IF unwrapped.value = "true" THEN "true" ELSE "false")
          ELSE IF unwrapped.kind \in {"IntegerLiteral", "FloatingLiteral"}
            THEN toNumberLiteral(unwrapped.value)
          ELSE IF unwrapped.kind = "UnaryOperator" /\ unwrapped.opcode \in {"-", "+"}
                  /\ signed # Null
            THEN unwrapped.opcode \o signed
          ELSE IF unwrapped.kind = "StringLiteral" THEN unwrapped.value
          ELSE IF stringLiteralNode # NoNode /\ stringLiteralNode.value # ""
            THEN stringLiteralNode.value
          ELSE IF (isStringType(paramType) \/ isSGPathType(paramType))
                  /\ unwrapped.kind \in {"CXXConstructExpr", "CXXTemporaryObjectExpr"}
            THEN "\"\""
          ELSE NoDefault

extractParamDefaultValue(paramNode, paramType) ==
  IF ~paramNode.hasInit THEN NoDefault
  ELSE extractTsDefaultValueFromExpr(
         IF paramNode.inner = <<>> THEN NoNode ELSE paramNode.inner[1], paramType)

extractMethodParams(methodNode) ==
  LET paramNodes == SelectSeq(methodNode.inner, LAMBDA n : n.kind = "ParmVarDecl")
  IN normalizeParamNames(
       [i \in DOMAIN paramNodes |->
          [name |-> paramNodes[i].name,
           type |-> paramNodes[i].type,
           defaultValue |-> extractParamDefaultValue(paramNodes[i], paramNodes[i].type)]])

\* the loop of extractPublicMethodsFromClass over classNode.inner
RECURSIVE ExtractFrom(_, _)
ExtractFrom(children, currentAccess) ==
  IF children = <<>> THEN <<>>
  ELSE LET child == Head(children)
       IN IF child.kind = "AccessSpecDecl" THEN ExtractFrom(Tail(children), child.access)
          ELSE IF ~isPublicMethodNode(child, currentAccess)
            THEN ExtractFrom(Tail(children), currentAccess)
          ELSE IF inferReturnType(child) = NoType
            THEN ExtractFrom(Tail(children), currentAccess)
          ELSE <<[name |-> child.name,
                  returnType |-> inferReturnType(child),
                  params |-> extractMethodParams(child)]>>
               \o ExtractFrom(Tail(children), currentAccess)

extractPublicMethodsFromClass(node) == ExtractFrom(node, "private")

\* methodKey / methodArityKey (signature.mjs)
createMethodKey(methodName, paramTypes) == [name |-> methodName, signature |-> paramTypes]
createMethodArityKey(methodName, paramCount) == [name |-> methodName, arity |-> paramCount]
methodKey(method) ==
  createMethodKey(method.name, [i \in DOMAIN method.params |-> method.params[i].type])
methodArityKey(method) == createMethodArityKey(method.name, Len(method.params))

----------------------------------------------------------------------------
(* Type and enum metadata (type-metadata.mjs) *)

\* integer texts the compiler prints for the modelled constants: /^-?\d+$/
IntTexts == <<"0", "1", "2", "3", "4", "5", "6", "7", "8", "9">>
IsIntText(v) == \E i \in DOMAIN IntTexts : IntTexts[i] = v
ParseInt(v) == (CHOOSE i \in DOMAIN IntTexts : IntTexts[i] = v) - 1

NoInt == -1000      \* extractFirstIntegerValue's null

RECURSIVE extractFirstIntegerValue(_)
RECURSIVE extractFirstIntegerValueIn(_)
extractFirstIntegerValue(node) ==
  IF "value" \in DOMAIN node /\ IsIntText(node.value) THEN ParseInt(node.value)
  ELSE extractFirstIntegerValueIn(IF "inner" \in DOMAIN node THEN node.inner ELSE <<>>)
extractFirstIntegerValueIn(children) ==
  IF children = <<>> THEN NoInt
  ELSE LET value == extractFirstIntegerValue(Head(children))
       IN IF value # NoInt THEN value ELSE extractFirstIntegerValueIn(Tail(children))

\* enumerators numbered by their place in the declaration alone
EnumMembersByPosition(children, nextValue) ==
  LET constants == SelectSeq(children,
                     LAMBDA child : child.kind = "EnumConstantDecl" /\ child.name # <<>>)
  IN [i \in DOMAIN constants |-> [name |-> constants[i].name, value |-> nextValue + i - 1]]

RECURSIVE EnumMembersFrom(_, _)
EnumMembersFrom(children, nextValue) ==
  IF children = <<>> THEN <<>>
  ELSE LET child == Head(children)
       IN IF child.kind # "EnumConstantDecl" \/ child.name = <<>>
            THEN EnumMembersFrom(Tail(children), nextValue)
          ELSE LET explicit == extractFirstIntegerValue(child)
                   value == IF explicit = NoInt THEN nextValue ELSE explicit
               IN <<[name |-> child.name, value |-> value]>>
                  \o EnumMembersFrom(Tail(children), value + 1)

extractEnumMembers(enumDeclNode) == EnumMembersFrom(enumDeclNode.inner, 0)

\* enumName.replace(/^e(?=[A-Z])/, "") prefixed with the class name
makeClassEnumTsName(enumName) ==
  CLASS_NAME \o (IF Len(enumName) >= 2 /\ enumName[1] = "e" /\ IsUpper(enumName[2])
                   THEN Tail(enumName) ELSE enumName)

makeFlagTsName(methodName) == methodName \o <<"M","o","d","e">>

EnumSpelling(path) == [const |-> FALSE, enumKw |-> TRUE, path |-> path, ind |-> ""]

ClassEnumDef(child) ==
  [kind |-> "enum",
   tsName |-> makeClassEnumTsName(child.name),
   cppSimpleName |-> child.name,
   cppQualifiedName |-> <<NS_JSBSim, CLASS_NAME, child.name>>,
   cppTypeNames |-> <<CType(FALSE, <<child.name>>, ""),
                      CType(FALSE, <<CLASS_NAME, child.name>>, ""),
                      CType(FALSE, <<NS_JSBSim, CLASS_NAME, child.name>>, ""),
                      EnumSpelling(<<child.name>>),
                      EnumSpelling(<<CLASS_NAME, child.name>>)>>,
   members |-> extractEnumMembers(child)]

\* flagsByMethod.get(m) ?? [] with the member appended, insertion order kept
AddFlag(flagsByMethod, methodName, member) ==
  IF \E i \in DOMAIN flagsByMethod : flagsByMethod[i].methodName = methodName
    THEN [i \in DOMAIN flagsByMethod |->
            IF flagsByMethod[i].methodName = methodName
              THEN [flagsByMethod[i] EXCEPT !.members = Append(@, member)]
              ELSE flagsByMethod[i]]
    ELSE Append(flagsByMethod, [methodName |-> methodName, members |-> <<member>>])

\* the loop of parseClassMetadataFromNode; st = [enumDefs, flagsByMethod]
RECURSIVE ClassMetadataFrom(_, _, _, _)
ClassMetadataFrom(children, currentAccess, activeFlagMethod, st) ==
  IF children = <<>> THEN st
  ELSE
    LET child == Head(children)
        rest == Tail(children)
    IN IF child.kind = "AccessSpecDecl"
         THEN ClassMetadataFrom(rest, child.access,
                IF child.access # "public" THEN <<>> ELSE activeFlagMethod, st)
       ELSE IF currentAccess # "public"
         THEN ClassMetadataFrom(rest, currentAccess, <<>>, st)
       ELSE IF child.kind = "EnumDecl" /\ child.name # <<>>
         THEN IF extractEnumMembers(child) = <<>>
                THEN ClassMetadataFrom(rest, currentAccess, activeFlagMethod, st)
                ELSE ClassMetadataFrom(rest, currentAccess, <<>>,
                       [st EXCEPT !.enumDefs = Append(@, ClassEnumDef(child))])
       ELSE IF child.kind # "VarDecl"
         THEN ClassMetadataFrom(rest, currentAccess, <<>>, st)
       ELSE IF child.storageClass # "static" \/ ~(child.type.path \in {<<Id_int>>, <<Id_unsigned_int>>}
                                                    /\ child.type.ind = "" /\ ~child.type.enumKw)
         THEN ClassMetadataFrom(rest, currentAccess, <<>>, st)
       ELSE
         LET active == IF child.modeFlagsFor # <<>> THEN child.modeFlagsFor ELSE activeFlagMethod
             value == extractFirstIntegerValue(child)
         IN IF active = <<>> THEN ClassMetadataFrom(rest, currentAccess, active, st)
            ELSE IF value = NoInt \/ child.name = <<>>
              THEN ClassMetadataFrom(rest, currentAccess, active, st)
            ELSE ClassMetadataFrom(rest, currentAccess, active,
                   [st EXCEPT !.flagsByMethod =
                      AddFlag(@, active, [name |-> child.name, value |-> value])])

parseClassMetadataFromNode(node) ==
  LET st == ClassMetadataFrom(node, "private", <<>>, [enumDefs |-> <<>>, flagsByMethod |-> <<>>])
      flagDefs == [i \in DOMAIN st.flagsByMethod |->
                     [kind |-> "flags",
                      tsName |-> makeFlagTsName(st.flagsByMethod[i].methodName),
                      methodName |-> st.flagsByMethod[i].methodName,
                      members |-> st.flagsByMethod[i].members]]
  IN [enumDefs |-> st.enumDefs,
      flagDefs |-> SelectSeq(flagDefs, LAMBDA f : Len(f.members) > 0)]

addEnumDefinition(enumDefs, enumDef) ==
  IF \E i \in DOMAIN enumDefs :
       \/ enumDefs[i].tsName = enumDef.tsName
       \/ enumDefs[i].cppQualifiedName = enumDef.cppQualifiedName
    THEN enumDefs
    ELSE Append(enumDefs, enumDef)

\* lookup.set(key, value) on a Map held as a function
MapSet(map, key, value) ==
  [k \in (DOMAIN map) \cup {key} |-> IF k = key THEN value ELSE map[k]]

EmptyMap == [k \in {} |-> Null]

RECURSIVE SetAll(_, _, _)
SetAll(map, keys, value) ==
  IF keys = <<>> THEN map ELSE SetAll(MapSet(map, Head(keys), value), Tail(keys), value)

RECURSIVE LookupOfNames(_, _, _)
LookupOfNames(map, cppTypeNames, enumDef) ==
  IF cppTypeNames = <<>> THEN map
  ELSE LookupOfNames(SetAll(map, enumLookupVariants(Head(cppTypeNames)), enumDef),
                     Tail(cppTypeNames), enumDef)

RECURSIVE LookupOfDefs(_, _)
LookupOfDefs(map, enumDefs) ==
  IF enumDefs = <<>> THEN map
  ELSE LookupOfDefs(LookupOfNames(map, Head(enumDefs).cppTypeNames, Head(enumDefs)),
                    Tail(enumDefs))

buildEnumLookup(enumDefs) == LookupOfDefs(EmptyMap, enumDefs)

\* A header of the tree is [pathLength, tokens, compiles, ast]: the length of
\* its full path, the names its text holds as a whole word next to "enum",
\* the one spelling of the probed type that compiles against it (or
\* NoSpelling), and the syntax tree the compiler then dumps.
NoHeaders == <<>>
NoSpelling == [kind |-> "none"]
NoAst == [kind |-> "none"]

\* candidates.sort((a, b) => a.length - b.length): stable, equal lengths
\* keep the order of the traversal
RECURSIVE SortByLength(_, _)
SortByLength(todo, sorted) ==
  IF todo = <<>> THEN sorted
  ELSE LET h == Head(todo)
           before == SelectSeq(sorted, LAMBDA k : tree[k].pathLength <= tree[h].pathLength)
           after == SelectSeq(sorted, LAMBDA k : tree[k].pathLength > tree[h].pathLength)
       IN SortByLength(Tail(todo), before \o <<h>> \o after)

\* the headers are named by their place in the traversal
findHeaderCandidatesForTokenInTraversalOrder(token) ==
  SelectSeq([i \in DOMAIN tree |-> i], LAMBDA i : token \in tree[i].tokens)

findHeaderCandidatesForToken(token) ==
  SortByLength(SelectSeq([i \in DOMAIN tree |-> i], LAMBDA i : token \in tree[i].tokens), <<>>)

\* runClangAstDumpFromSource on the probe of one header and one spelling
runClangAstDumpFromProbe(probe) ==
  IF tree[probe.header].compiles = probe.probeType THEN tree[probe.header].ast ELSE NoAst

\* walkAst: the nodes of a tree in the order they are visited
RECURSIVE walkAst(_)
RECURSIVE WalkChildren(_)
walkAst(node) ==
  <<node>> \o WalkChildren(IF "inner" \in DOMAIN node THEN node.inner ELSE <<>>)
WalkChildren(children) ==
  IF children = <<>> THEN <<>> ELSE walkAst(Head(children)) \o WalkChildren(Tail(children))

findAstNodes(root, predicate(_)) == SelectSeq(walkAst(root), predicate)

\* The modelled syntax trees hold no TypedefDecl and their enumerators carry
\* no type string, so the enum is the first EnumDecl of the wanted name.
parseExternalEnumDefinitionFromAst(ast, enumSimpleName, enumQualifiedName) ==
  LET allEnumDecls == findAstNodes(ast, LAMBDA node : node.kind = "EnumDecl")
      named == SelectSeq(allEnumDecls, LAMBDA node : node.name = enumSimpleName)
  IN IF named = <<>> THEN NoEnum
     ELSE IF extractEnumMembers(Head(named)) = <<>> THEN NoEnum
     ELSE [kind |-> "enum",
           tsName |-> enumSimpleName,
           cppSimpleName |-> enumSimpleName,
           cppQualifiedName |-> enumQualifiedName.path,
           cppTypeNames |-> Dedup(<<CType(FALSE, <<enumSimpleName>>, ""),
                                    CType(FALSE, enumQualifiedName.path, ""),
                                    EnumSpelling(<<enumSimpleName>>)>>),
           members |-> extractEnumMembers(Head(named))]

\* enumQualifiedName.replace(/^enum\s+/, "").split("::").at(-1)
EnumSimpleName(enumQualifiedName) == enumQualifiedName.path[Len(enumQualifiedName.path)]

\* [...new Set(probeTypeCandidates)]; the modelled candidates carry no
\* qualifier, so the simple name is a spelling of its own
probeTypeCandidates(enumQualifiedName) ==
  LET enumSimpleName == EnumSimpleName(enumQualifiedName)
  IN Dedup(<<[enumQualifiedName EXCEPT !.enumKw = FALSE],
             CType(FALSE, <<enumSimpleName>>, "")>>
           \o (IF Len(enumQualifiedName.path) = 1
                 THEN <<CType(FALSE, <<NS_JSBSim, enumSimpleName>>, "")>> ELSE <<>>))

\* the two nested loops of resolveExternalEnumDefinition, with the probes made
RECURSIVE ProbeLoop(_, _, _, _)
ProbeLoop(candidateHeaders, spellings, enumQualifiedName, log) ==
  IF candidateHeaders = <<>> THEN [def |-> NoEnum, probes |-> log]
  ELSE IF spellings = <<>>
    THEN ProbeLoop(Tail(candidateHeaders), probeTypeCandidates(enumQualifiedName),
                   enumQualifiedName, log)
  ELSE LET probe == [header |-> Head(candidateHeaders), probeType |-> Head(spellings)]
           ast == runClangAstDumpFromProbe(probe)
           enumDef == IF ast = NoAst THEN NoEnum
                      ELSE parseExternalEnumDefinitionFromAst(
                             ast, EnumSimpleName(enumQualifiedName), enumQualifiedName)
       IN IF enumDef # NoEnum THEN [def |-> enumDef, probes |-> Append(log, probe)]
          ELSE ProbeLoop(candidateHeaders, Tail(spellings), enumQualifiedName,
                         Append(log, probe))

ResolveExternal(enumQualifiedName) ==
  ProbeLoop(findHeaderCandidatesForToken(EnumSimpleName(enumQualifiedName)),
            probeTypeCandidates(enumQualifiedName), enumQualifiedName, <<>>)

resolveExternalEnumDefinition(enumQualifiedName) == ResolveExternal(enumQualifiedName).def

\* perSignature.set / perArity.set behind !has(paramIndex): the overrides of a
\* key are the pairs <<paramIndex, castType>> in the order they were set
AddCastOverride(overrides, key, paramIndex, castType) ==
  LET perKey == IF key \in DOMAIN overrides THEN overrides[key] ELSE <<>>
  IN MapSet(overrides, key,
            IF \E i \in DOMAIN perKey : perKey[i][1] = paramIndex THEN perKey
            ELSE Append(perKey, <<paramIndex, castType>>))

\* the loop over the references to parameters below one cast;
\* st = [overridesByMethodKey, overridesByArityKey, discoveredEnumTypes]
RECURSIVE ParamRefsOfCast(_, _, _, _)
ParamRefsOfCast(paramRefs, methodNode, castType, st) ==
  IF paramRefs = <<>> THEN st
  ELSE
    LET paramNodes == SelectSeq(methodNode.inner, LAMBDA node : node.kind = "ParmVarDecl")
        signatureKey == createMethodKey(methodNode.name,
                                        [i \in DOMAIN paramNodes |-> paramNodes[i].type])
        arityKey == createMethodArityKey(methodNode.name, Len(paramNodes))
        matching == {i \in DOMAIN paramNodes :
                       paramNodes[i].id = Head(paramRefs).referencedDecl.id}
    IN IF matching = {} THEN ParamRefsOfCast(Tail(paramRefs), methodNode, castType, st)
       ELSE LET paramIndex == (CHOOSE i \in matching : \A j \in matching : j <= i) - 1
            IN ParamRefsOfCast(Tail(paramRefs), methodNode, castType,
                 [overridesByMethodKey |->
                    AddCastOverride(st.overridesByMethodKey, signatureKey, paramIndex, castType),
                  overridesByArityKey |->
                    AddCastOverride(st.overridesByArityKey, arityKey, paramIndex, castType),
                  discoveredEnumTypes |-> Dedup(Append(st.discoveredEnumTypes, castType))])

\* the loop over the casts in the body of one method
RECURSIVE CastsOfMethod(_, _, _)
CastsOfMethod(castNodes, methodNode, st) ==
  IF castNodes = <<>> THEN st
  ELSE
    LET castNode == Head(castNodes)
        castType == [castNode.type EXCEPT !.enumKw = FALSE]
        paramRefs == findAstNodes(castNode,
                       LAMBDA node : /\ node.kind = "DeclRefExpr"
                                     /\ "referencedDecl" \in DOMAIN node
                                     /\ node.referencedDecl.kind = "ParmVarDecl")
    IN IF \/ castType = NoType \/ isBoolType(castType) \/ isNumericType(castType)
          \/ isPointerType(castType) \/ isReferenceType(castType)
         THEN CastsOfMethod(Tail(castNodes), methodNode, st)
         ELSE CastsOfMethod(Tail(castNodes), methodNode,
                ParamRefsOfCast(paramRefs, methodNode, castType, st))

\* the loop over the method definitions of the implementation file
RECURSIVE ImplementationOverridesOf(_, _)
ImplementationOverridesOf(methodNodes, st) ==
  IF methodNodes = <<>> THEN st
  ELSE
    LET methodNode == Head(methodNodes)
        castNodes == findAstNodes(methodNode,
                       LAMBDA node : node.kind \in {"CStyleCastExpr", "CXXStaticCastExpr"})
    IN IF SelectSeq(methodNode.inner, LAMBDA node : node.kind = "ParmVarDecl") = <<>>
         THEN ImplementationOverridesOf(Tail(methodNodes), st)
         ELSE ImplementationOverridesOf(Tail(methodNodes),
                CastsOfMethod(castNodes, methodNode, st))

\* runClangAstDumpFromFile(IMPLEMENTATION_PATH) gives implementationAst, or
\* null when no compiler produced a tree
parseImplementationEnumParamOverrides ==
  LET none == [overridesByMethodKey |-> EmptyMap,
               overridesByArityKey |-> EmptyMap,
               discoveredEnumTypes |-> <<>>]
  IN IF implementationAst = NoAst THEN none
     ELSE ImplementationOverridesOf(
            findAstNodes(implementationAst, LAMBDA node : node.kind = "CXXMethodDecl"), none)

\* the parameter and return types that look like enums, in the order met
RECURSIVE HeuristicCandidates(_)
HeuristicCandidates(ms) ==
  IF ms = <<>> THEN <<>>
  ELSE LET method == Head(ms)
           ps == SelectSeq([i \in DOMAIN method.params |-> method.params[i].type],
                           maybeLooksLikeEnumTypeName)
       IN ps \o (IF maybeLooksLikeEnumTypeName(method.returnType)
                   THEN <<method.returnType>> ELSE <<>>)
             \o HeuristicCandidates(Tail(ms))

\* the resolution loop over enumTypeCandidates;
\* st = [enumDefs, enumLookup, unresolved, probes]
RECURSIVE ResolveCandidates(_, _)
ResolveCandidates(candidates, st) ==
  IF candidates = <<>> THEN st
  ELSE LET candidate == Head(candidates)
           resolved == resolveExternalEnumDefinition(candidate)
           probed == [st EXCEPT !.probes = @ \o ResolveExternal(candidate).probes]
       IN IF resolveEnumInfo(candidate, st.enumLookup) # NoEnum
            THEN ResolveCandidates(Tail(candidates), st)
          ELSE IF resolved = NoEnum
            THEN ResolveCandidates(Tail(candidates),
                   [probed EXCEPT !.unresolved = @ \cup {candidate}])
          ELSE LET defs == addEnumDefinition(st.enumDefs, resolved)
               IN ResolveCandidates(Tail(candidates),
                    [probed EXCEPT !.enumDefs = defs, !.enumLookup = buildEnumLookup(defs)])

\* an override that replaces the one a parameter index already has
setMethodParamOverrideReplacing(paramTypeOverrides, methodKeyValue, paramIndex, tsTypeName) ==
  LET methodOverrides == IF methodKeyValue \in DOMAIN paramTypeOverrides
                           THEN paramTypeOverrides[methodKeyValue] ELSE EmptyMap
  IN MapSet(paramTypeOverrides, methodKeyValue,
            MapSet(methodOverrides, paramIndex, tsTypeName))

\* setMethodParamOverride: the first override of a parameter index stays
setMethodParamOverride(paramTypeOverrides, methodKeyValue, paramIndex, tsTypeName) ==
  LET methodOverrides == IF methodKeyValue \in DOMAIN paramTypeOverrides
                           THEN paramTypeOverrides[methodKeyValue] ELSE EmptyMap
  IN MapSet(paramTypeOverrides, methodKeyValue,
            IF paramIndex \in DOMAIN methodOverrides THEN methodOverrides
            ELSE MapSet(methodOverrides, paramIndex, tsTypeName))

\* cast-site candidates of one method; each is <<paramIndex, enumType>>; st = [params, unresolved]
RECURSIVE ApplyCandidateOverrides(_, _, _, _)
ApplyCandidateOverrides(candidateOverrides, signatureKey, enumLookup, st) ==
  IF candidateOverrides = <<>> THEN st
  ELSE LET paramIndex == Head(candidateOverrides)[1]
           enumType == Head(candidateOverrides)[2]
           enumInfo == resolveEnumInfo(enumType, enumLookup)
       IN ApplyCandidateOverrides(Tail(candidateOverrides), signatureKey, enumLookup,
            IF enumInfo = NoEnum
              THEN [st EXCEPT !.unresolved = @ \cup {enumType}]
              ELSE [st EXCEPT !.params =
                      setMethodParamOverride(@, signatureKey, paramIndex, enumInfo.tsName)])

\* the Set<Enum> / Get<Enum> naming rules of one method; st = [params, returns]
RECURSIVE ApplyEnumNaming(_, _, _, _)
ApplyEnumNaming(enumDefs, method, enumLookup, st) ==
  IF enumDefs = <<>> THEN st
  ELSE LET enumDef == Head(enumDefs)
           signatureKey == methodKey(method)
           setHit == /\ method.name = <<"S","e","t">> \o enumDef.cppSimpleName
                     /\ Len(method.params) > 0
                     /\ toTsType(method.params[1].type, enumLookup, FALSE) = TsBuiltin("number")
           getHit == /\ method.name = <<"G","e","t">> \o enumDef.cppSimpleName
                     /\ Len(method.params) = 0
                     /\ toTsType(method.returnType, enumLookup, TRUE) = TsBuiltin("number")
                     /\ signatureKey \notin DOMAIN st.returns
           p1 == IF setHit
                   THEN setMethodParamOverride(st.params, signatureKey, 0, enumDef.tsName)
                   ELSE st.params
           r1 == IF getHit THEN MapSet(st.returns, signatureKey, enumDef.tsName) ELSE st.returns
       IN ApplyEnumNaming(Tail(enumDefs), method, enumLookup, [params |-> p1, returns |-> r1])

RECURSIVE ApplyFlagDefs(_, _, _, _)
ApplyFlagDefs(flagDefs, method, enumLookup, paramTypeOverrides) ==
  IF flagDefs = <<>> THEN paramTypeOverrides
  ELSE LET flagDef == Head(flagDefs)
           hit == /\ method.name = flagDef.methodName
                  /\ Len(method.params) > 0
                  /\ toTsType(method.params[1].type, enumLookup, FALSE) = TsBuiltin("number")
       IN ApplyFlagDefs(Tail(flagDefs), method, enumLookup,
            IF hit THEN setMethodParamOverride(paramTypeOverrides, methodKey(method), 0, flagDef.tsName)
            ELSE paramTypeOverrides)

\* the override loop over the methods; st = [params, returns, unresolved]
RECURSIVE PopulateOverrides(_, _, _, _, _, _)
PopulateOverrides(ms, impl, enumDefs, flagDefs, enumLookup, st) ==
  IF ms = <<>> THEN st
  ELSE
    LET method == Head(ms)
        signatureKey == methodKey(method)
        arityKey == methodArityKey(method)
        candidateOverrides ==
          IF signatureKey \in DOMAIN impl.overridesByMethodKey
            THEN impl.overridesByMethodKey[signatureKey]
          ELSE IF arityKey \in DOMAIN impl.overridesByArityKey
            THEN impl.overridesByArityKey[arityKey]
          ELSE <<>>
        a == ApplyCandidateOverrides(candidateOverrides, signatureKey, enumLookup,
               [params |-> st.params, unresolved |-> st.unresolved])
        b == ApplyEnumNaming(enumDefs, method, enumLookup,
               [params |-> a.params, returns |-> st.returns])
        c == ApplyFlagDefs(flagDefs, method, enumLookup, b.params)
    IN PopulateOverrides(Tail(ms), impl, enumDefs, flagDefs, enumLookup,
         [params |-> c, returns |-> b.returns, unresolved |-> a.unresolved])

\* the first half of buildTypeMetadata: class metadata, then the candidates
ResolvedCandidates(ms, node) ==
  LET classMetadata == parseClassMetadataFromNode(node)
      enumTypeCandidates ==
        Dedup(parseImplementationEnumParamOverrides.discoveredEnumTypes
              \o HeuristicCandidates(ms))
  IN ResolveCandidates(enumTypeCandidates,
       [enumDefs |-> classMetadata.enumDefs,
        enumLookup |-> buildEnumLookup(classMetadata.enumDefs),
        unresolved |-> {},
        probes |-> <<>>])

buildTypeMetadata(ms, node) ==
  LET classMetadata == parseClassMetadataFromNode(node)
      implementationMetadata == parseImplementationEnumParamOverrides
      resolved == ResolvedCandidates(ms, node)
      overrides == PopulateOverrides(ms, implementationMetadata, resolved.enumDefs,
                     classMetadata.flagDefs, resolved.enumLookup,
                     [params |-> EmptyMap, returns |-> EmptyMap,
                      unresolved |-> resolved.unresolved])
  IN [enumDefs |-> resolved.enumDefs,
      flagDefs |-> classMetadata.flagDefs,
      enumLookup |-> resolved.enumLookup,
      paramTypeOverrides |-> overrides.params,
      returnTypeOverrides |-> overrides.returns,
      unresolvedEnumTypes |-> overrides.unresolved]

----------------------------------------------------------------------------
(* Ergonomic wrapper class (renderJsbsimApiClass and its helpers) *)

\* One step of the loop of buildApiMethods: st = [threw, groups].  An overload
\* keeps the position of its method in the method list (the method object).
ApiOverload(ms, index, tm) ==
  LET method == ms[index]
      signatureKey == methodKey(method)
      hasOverrides == signatureKey \in DOMAIN tm.paramTypeOverrides
  IN [method |-> index,
      params |-> [i \in DOMAIN method.params |->
                    [name |-> method.params[i].name,
                     typeName |-> IF hasOverrides /\ (i - 1) \in DOMAIN tm.paramTypeOverrides[signatureKey]
                                    THEN TsRef(tm.paramTypeOverrides[signatureKey][i - 1])
                                    ELSE toTsType(method.params[i].type, tm.enumLookup, FALSE),
                     defaultValue |-> method.params[i].defaultValue]],
      returnType |-> IF signatureKey \in DOMAIN tm.returnTypeOverrides
                       THEN TsRef(tm.returnTypeOverrides[signatureKey])
                       ELSE toTsType(method.returnType, tm.enumLookup, TRUE)]

\* a grouping that accepts any source name into an existing group
CollidesWithNever(existingGroup, method) == FALSE

\* a collision of two source names on one camel name throws
CollidesWith(existingGroup, method) == existingGroup.sourceMethodName # method.name

RECURSIVE GroupMethodsFrom(_, _, _, _, _)
GroupMethodsFrom(ms, index, tm, ignoreMethodsSet, st) ==
  IF index > Len(ms) \/ st.threw THEN st
  ELSE
    LET method == ms[index]
        Step(camelName, overload) ==
          LET existing == {g \in DOMAIN st.groups : st.groups[g].camelName = camelName}
          IN IF existing # {} /\ CollidesWith(st.groups[CHOOSE g \in existing : TRUE], method)
               THEN [st EXCEPT !.threw = TRUE]
             ELSE IF existing = {}
               THEN [st EXCEPT !.groups = Append(@, [camelName |-> camelName,
                                                     sourceMethodName |-> method.name,
                                                     overloads |-> <<overload>>])]
             ELSE [st EXCEPT !.groups[CHOOSE g \in existing : TRUE].overloads =
                               Append(@, overload)]
    IN GroupMethodsFrom(ms, index + 1, tm, ignoreMethodsSet,
         IF method.name \in ignoreMethodsSet THEN st
         ELSE Step(toCamelCaseName(method.name), ApiOverload(ms, index, tm)))

\* grouping without the ignore list
buildApiMethodsIgnoringNothing(ms, tm, ignoreMethodsSet) ==
  GroupMethodsFrom(ms, 1, tm, {}, [threw |-> FALSE, groups |-> <<>>])

buildApiMethods(ms, tm, ignoreMethodsSet) ==
  GroupMethodsFrom(ms, 1, tm, ignoreMethodsSet, [threw |-> FALSE, groups |-> <<>>])

RECURSIVE TrailingDefaultCount(_)
TrailingDefaultCount(params) ==
  IF params = <<>> \/ params[Len(params)].defaultValue = NoDefault THEN 0
  ELSE 1 + TrailingDefaultCount(Prefix(params, Len(params) - 1))

\* every parameter counted as required
getRequiredParamCountAll(params) == Len(params)

getRequiredParamCount(params) == Len(params) - TrailingDefaultCount(params)

OverloadRanges(overloads) ==
  [i \in DOMAIN overloads |->
     [minArgs |-> getRequiredParamCount(overloads[i].params),
      maxArgs |-> Len(overloads[i].params)]]

\* the number of overloads whose range holds providedArgCount
AcceptorCount(overloadRanges, providedArgCount) ==
  Cardinality({i \in DOMAIN overloadRanges :
                 /\ providedArgCount >= overloadRanges[i].minArgs
                 /\ providedArgCount <= overloadRanges[i].maxArgs})

\* the inner loop runs providedArgCount from minArgs while it is below maxArgs
\* the inner loop started one above minArgs
FillLoopStartAboveMin(range) == range.minArgs + 1
FillLoopStart(range) == range.minArgs
\* a loop that also visits the full parameter count of the overload
FillLoopContinuesToMax(providedArgCount, range) == providedArgCount <= range.maxArgs
FillLoopContinues(providedArgCount, range) == providedArgCount < range.maxArgs

\* the loop body without its test of the acceptor count
RecordsFillCaseForAnyAcceptorCount(overloadRanges, overload, providedArgCount) ==
  \A j \in (providedArgCount + 1)..Len(overload.params) :
     overload.params[j].defaultValue # NoDefault

\* whether the loop body records a fill case for this overload and count
RecordsFillCase(overloadRanges, overload, providedArgCount) ==
  /\ AcceptorCount(overloadRanges, providedArgCount) = 1
  /\ \A j \in (providedArgCount + 1)..Len(overload.params) :
        overload.params[j].defaultValue # NoDefault

\* missingParams.map((param) => param.defaultValue)
MissingDefaults(overload, providedArgCount) ==
  [j \in 1..(Len(overload.params) - providedArgCount) |->
     overload.params[providedArgCount + j].defaultValue]

\* the inner loop: the fill cases of one overload
RECURSIVE FillCasesOfOverload(_, _, _, _)
FillCasesOfOverload(overloadRanges, overload, range, providedArgCount) ==
  IF ~FillLoopContinues(providedArgCount, range) THEN <<>>
  ELSE (IF RecordsFillCase(overloadRanges, overload, providedArgCount)
          THEN <<[providedArgCount |-> providedArgCount,
                  defaultValues |-> MissingDefaults(overload, providedArgCount)]>>
          ELSE <<>>)
       \o FillCasesOfOverload(overloadRanges, overload, range, providedArgCount + 1)

\* Array.prototype.sort with (a, b) => a.providedArgCount - b.providedArgCount: stable
RECURSIVE SortFillCases(_)
InsertFillCase(sorted, fillCase) ==
  LET before == SelectSeq(sorted, LAMBDA x : x.providedArgCount <= fillCase.providedArgCount)
      after == SelectSeq(sorted, LAMBDA x : x.providedArgCount > fillCase.providedArgCount)
  IN before \o <<fillCase>> \o after
SortFillCases(fillCases) ==
  IF fillCases = <<>> THEN <<>>
  ELSE InsertFillCase(SortFillCases(Prefix(fillCases, Len(fillCases) - 1)),
                      fillCases[Len(fillCases)])

buildDefaultFillCasesForOverloads(overloads) ==
  LET overloadRanges == OverloadRanges(overloads)
  IN SortFillCases(Concat(
       [i \in DOMAIN overloads |->
          FillCasesOfOverload(overloadRanges, overloads[i], overloadRanges[i],
                              FillLoopStart(overloadRanges[i]))]))

\* a parameter rendered without its default initializer
renderParamWithoutInitializer(param, optionalForDefault, includeDefaultInitializer) ==
  [name |-> param.name,
   typeName |-> param.typeName,
   optional |-> optionalForDefault /\ param.defaultValue # NoDefault,
   initializer |-> NoDefault]

\* renderParam under the two option sets the class renderer uses
renderParam(param, optionalForDefault, includeDefaultInitializer) ==
  LET withInitializer == includeDefaultInitializer /\ param.defaultValue # NoDefault
  IN [name |-> param.name,
      typeName |-> param.typeName,
      optional |-> ~withInitializer /\ optionalForDefault /\ param.defaultValue # NoDefault,
      initializer |-> IF withInitializer THEN param.defaultValue ELSE NoDefault]

renderParams(params, optionalForDefault, includeDefaultInitializer) ==
  [i \in DOMAIN params |-> renderParam(params[i], optionalForDefault, includeDefaultInitializer)]

renderCallArgs(params) == [i \in DOMAIN params |-> params[i].name]

\* the type names a group needs imported: the references to generated types
collectTypeImports(groupedMethods) ==
  {CLASS_NAME \o <<"A","p","i">>}
  \cup {t.ref : t \in {tn \in
         UNION {UNION {{g.overloads[o].params[i].typeName : i \in DOMAIN g.overloads[o].params}
                       \cup {g.overloads[o].returnType} : o \in DOMAIN g.overloads}
                : g \in Range(groupedMethods)} : tn.builtin = ""}}

\* the class member emitted for one group
RenderGroup(group) ==
  IF Len(group.overloads) = 1
    THEN [camelName |-> group.camelName,
          sourceMethodName |-> group.sourceMethodName,
          signatures |-> <<[params |-> renderParams(group.overloads[1].params, FALSE, TRUE),
                            returnType |-> group.overloads[1].returnType]>>,
          body |-> [kind |-> "forward",
                    callArgs |-> renderCallArgs(group.overloads[1].params),
                    fillCases |-> <<>>,
                    returnTypes |-> <<group.overloads[1].returnType>>]]
    ELSE [camelName |-> group.camelName,
          sourceMethodName |-> group.sourceMethodName,
          signatures |-> [o \in DOMAIN group.overloads |->
                            [params |-> renderParams(group.overloads[o].params, TRUE, FALSE),
                             returnType |-> group.overloads[o].returnType]],
          body |-> [kind |-> "dispatch",
                    callArgs |-> <<>>,
                    fillCases |-> buildDefaultFillCasesForOverloads(group.overloads),
                    returnTypes |-> Dedup([o \in DOMAIN group.overloads |->
                                             group.overloads[o].returnType])]]

NoOutput == [kind |-> "none"]

\* the rendered class, or threw when buildApiMethods throws
renderJsbsimApiClass(ms, tm) ==
  LET Render(grouped) ==
        IF grouped.threw THEN [kind |-> "threw"]
        ELSE [kind |-> "JSBSimApi",
              imports |-> collectTypeImports(grouped.groups),
              groups |-> grouped.groups,
              members |-> [g \in DOMAIN grouped.groups |-> RenderGroup(grouped.groups[g])]]
  IN Render(buildApiMethods(ms, tm, DEFAULT_JSBSIM_API_IGNORE_METHODS))

----------------------------------------------------------------------------
(* What the emitted class does when one of its members is called *)

Undefined == "undefined"

\* a single-overload member: parameters bind positionally, a missing argument
\* takes the parameter's initializer, and the parameters are forwarded
ForwardCall(member, args) ==
  LET params == member.signatures[1].params
  IN [i \in DOMAIN params |->
        IF i <= Len(args) /\ args[i] # Undefined THEN args[i]
        ELSE IF params[i].initializer # NoDefault THEN params[i].initializer
        ELSE Undefined]

\* an overloaded member: switch (normalizedArgs.length) over the fill cases
DispatchCall(member, args) ==
  LET hits == {c \in DOMAIN member.body.fillCases :
                 member.body.fillCases[c].providedArgCount = Len(args)}
  IN IF hits = {} THEN args
     ELSE args \o member.body.fillCases[CHOOSE c \in hits : \A d \in hits : c <= d].defaultValues

\* the arguments this.exec.<sourceMethodName> receives
RawArgsOfCall(member, args) ==
  IF member.body.kind = "forward" THEN ForwardCall(member, args) ELSE DispatchCall(member, args)

----------------------------------------------------------------------------
(* Raw interface and native wrapper layer (renderTsInterface, renderCppOutput) *)

renderTsInterface(ms) ==
  [kind |-> "FGFDMExecApi",
   signatures |-> [m \in DOMAIN ms |->
      [name |-> ms[m].name,
       params |-> [i \in DOMAIN ms[m].params |->
                     [name |-> <<"a","r","g">> \o NatToChars(i - 1),
                      typeName |-> rawToTsType(ms[m].params[i].type, FALSE)]],
       returnType |-> rawToTsType(ms[m].returnType, TRUE)]]]

T_uintptr == CType(FALSE, <<<<"u","i","n","t","p","t","r","_","t">>>>, "")

\* a narrowing that keeps the string reference for std::string only
toCppParamTypeStringOnly(paramType) ==
  IF isBoolType(paramType) THEN T_bool
  ELSE IF isNumericType(paramType) THEN CType(FALSE, paramType.path, "")
  ELSE IF isStringType(paramType) THEN T_constStringRef
  ELSE T_uintptr

toCppParamType(paramType) ==
  IF isBoolType(paramType) THEN T_bool
  ELSE IF isNumericType(paramType) THEN CType(FALSE, paramType.path, "")
  ELSE IF isStringType(paramType) \/ isSGPathType(paramType) THEN T_constStringRef
  ELSE T_uintptr

\* single tokens qualifyCppType leaves alone
CXX_PASSTHROUGH_TOKENS == {Id_bool, Id_void, Id_int, Id_double, Id_unsigned_int, CLASS_NAME, Id_SGPath}

qualifyCppType(path) ==
  IF Len(path) # 1 \/ path[1] \in CXX_PASSTHROUGH_TOKENS THEN path ELSE <<NS_JSBSim>> \o path

\* how the wrapper hands the argument on: as it is, rebuilt as a path, or
\* through reinterpret_cast (of the value for a pointer, dereferenced otherwise)
convertCppArg(paramType) ==
  IF isBoolType(paramType) \/ isNumericType(paramType) \/ isStringType(paramType)
    THEN [kind |-> "pass"]
  ELSE IF isSGPathType(paramType) THEN [kind |-> "SGPath"]
  ELSE IF isPointerType(paramType)
    THEN [kind |-> "reinterpret_cast", deref |-> FALSE,
          castType |-> CType(paramType.const, qualifyCppType(paramType.path), "*")]
  ELSE IF isReferenceType(paramType)
    THEN [kind |-> "reinterpret_cast", deref |-> TRUE,
          castType |-> CType(paramType.const, qualifyCppType(paramType.path), "*")]
  ELSE [kind |-> "reinterpret_cast", deref |-> TRUE,
        castType |-> CType(paramType.const, qualifyCppType(paramType.path), "*")]

WrapperName(ms, methodIndex) == [method |-> ms[methodIndex].name, index |-> methodIndex - 1]

renderWrapperFunctions(ms) ==
  [m \in DOMAIN ms |->
     [wrapperName |-> WrapperName(ms, m),
      params |-> [i \in DOMAIN ms[m].params |->
                    [name |-> ms[m].params[i].name,
                     cppType |-> toCppParamType(ms[m].params[i].type)]],
      convertedArgs |-> [i \in DOMAIN ms[m].params |-> convertCppArg(ms[m].params[i].type)],
      invokes |-> ms[m].name,
      returnsVoid |-> ms[m].returnType = T_void]]

renderBindingRegistration(ms) ==
  [m \in DOMAIN ms |-> [name |-> ms[m].name, wrapper |-> WrapperName(ms, m)]]

renderCppOutput(ms) ==
  [kind |-> "FGFDMExecBindings",
   wrappers |-> renderWrapperFunctions(ms),
   bindings |-> renderBindingRegistration(ms)]

----------------------------------------------------------------------------
(* The class declarations the runs are given *)

AccessSpec(access) == [kind |-> "AccessSpecDecl", access |-> access]

Parm(name, type) ==
  [kind |-> "ParmVarDecl", name |-> name, type |-> type, hasInit |-> FALSE, inner |-> <<>>]

ParmInit(name, type, expr) ==
  [kind |-> "ParmVarDecl", name |-> name, type |-> type, hasInit |-> TRUE, inner |-> <<expr>>]

BoolLiteral(text) == [kind |-> "CXXBoolLiteralExpr", value |-> text, inner |-> <<>>]

MethodDecl(name, ret, params) ==
  [kind |-> "CXXMethodDecl", name |-> name, isImplicit |-> FALSE,
   type |-> [hasParen |-> TRUE, ret |-> ret], inner |-> params]

EnumConstant(name) == [kind |-> "EnumConstantDecl", name |-> name, inner |-> <<>>]

EnumDecl(name, constants) == [kind |-> "EnumDecl", name |-> name, inner |-> constants]

Id_model == <<"m","o","d","e","l">>
Id_addModelToPath == <<"a","d","d","M","o","d","e","l","T","o","P","a","t","h">>
Id_AircraftPath == <<"A","i","r","c","r","a","f","t","P","a","t","h">>
Id_EnginePath == <<"E","n","g","i","n","e","P","a","t","h">>
Id_SystemsPath == <<"S","y","s","t","e","m","s","P","a","t","h">>
Id_mode == <<"m","o","d","e">>
Id_fname == <<"f","n","a","m","e">>

\* void Run();  bool RunIC();  void Foo();  void foo();
Decl_Run == MethodDecl(Id_Run, T_void, <<>>)
Decl_RunIC == MethodDecl(Id_RunIC, T_bool, <<>>)
Decl_Foo == MethodDecl(Id_Foo, T_void, <<>>)
Decl_foo == MethodDecl(Id_foo, T_void, <<>>)

\* bool LoadModel(const std::string& model, bool addModelToPath = true);
Decl_LoadModel2 ==
  MethodDecl(Id_LoadModel, T_bool,
    <<Parm(Id_model, T_constStringRef),
      ParmInit(Id_addModelToPath, T_bool, BoolLiteral("true"))>>)

\* bool LoadModel(const std::string& AircraftPath, const std::string& EnginePath,
\*                const std::string& SystemsPath, const std::string& model,
\*                bool addModelToPath = true);
Decl_LoadModel5 ==
  MethodDecl(Id_LoadModel, T_bool,
    <<Parm(Id_AircraftPath, T_constStringRef), Parm(Id_EnginePath, T_constStringRef),
      Parm(Id_SystemsPath, T_constStringRef), Parm(Id_model, T_constStringRef),
      ParmInit(Id_addModelToPath, T_bool, BoolLiteral("true"))>>)

\* enum eMode { tA, tB, tC };  void SetMode(eMode mode);
Decl_eMode == EnumDecl(Id_eMode, <<EnumConstant(Id_tA), EnumConstant(Id_tB), EnumConstant(Id_tC)>>)
Decl_SetMode == MethodDecl(Id_SetMode, T_void, <<Parm(Id_mode, T_eMode)>>)

\* bool SetOutputFileName(const std::string& fname);   (on the ignore list)
Decl_SetOutputFileName ==
  MethodDecl(Id_SetOutputFileName, T_bool, <<Parm(Id_fname, T_constStringRef)>>)

MemberPool ==
  {AccessSpec("public"), AccessSpec("private"),
   Decl_Run, Decl_RunIC, Decl_Foo, Decl_foo, Decl_LoadModel2, Decl_LoadModel5,
   Decl_eMode, Decl_SetMode, Decl_SetOutputFileName}

\* a class definition declares no member twice
NoRedeclaration(members) ==
  \A i, j \in DOMAIN members :
     (i < j /\ members[i].kind # "AccessSpecDecl") => members[i] # members[j]

ClassPool ==
  {members \in UNION {[1..n -> MemberPool] : n \in 0..MaxMembers} : NoRedeclaration(members)}

\* the default arguments of overloaded declarations: = 0 on an int parameter,
\* = "s<i>" on the i-th parameter when it is a string
IntegerLiteral(text) == [kind |-> "IntegerLiteral", value |-> text, inner |-> <<>>]

StringLiteral(text) == [kind |-> "StringLiteral", value |-> text, inner |-> <<>>]

StringDefaultExpr(i) ==
  [kind |-> "ExprWithCleanups",
   inner |-> <<[kind |-> "CXXConstructExpr",
                inner |-> <<StringLiteral("\"s" \o ToString(i) \o "\"")>>]>>]

OverloadParamName(i) == <<"p">> \o NatToChars(i)

\* the i-th parameter of an overload: firstType in first place, a string after it
OverloadParm(i, firstType, defaulted) ==
  LET type == IF i = 1 THEN firstType ELSE T_constStringRef
  IN IF ~defaulted THEN Parm(OverloadParamName(i), type)
     ELSE ParmInit(OverloadParamName(i), type,
                   IF type = T_int THEN IntegerLiteral("0") ELSE StringDefaultExpr(i))

\* bool Foo(...) with at most MaxParams parameters, the last of them defaulted
OverloadDecls ==
  {MethodDecl(Id_Foo, T_bool,
              [i \in 1..n |-> OverloadParm(i, firstType, i > n - defaults)]) :
     n \in 0..MaxParams, defaults \in 0..MaxParams, firstType \in {T_constStringRef, T_int}}

ParamTypesOf(decl) == [i \in DOMAIN decl.inner |-> decl.inner[i].type]

\* overloads of one name differ in their parameter types
OverloadClassPool ==
  {<<AccessSpec("public")>> \o decls :
     decls \in {d \in UNION {[1..k -> OverloadDecls] : k \in 1..MaxOverloads} :
                  \A i, j \in DOMAIN d : i < j => ParamTypesOf(d[i]) # ParamTypesOf(d[j])}}

----------------------------------------------------------------------------
(* generateBindings, one action per statement *)

OutputPaths == {"CPP_OUT_PATH", "TS_OUT_PATH", "SDK_API_OUT_PATH"}

Absent == [kind |-> "absent"]
Stale == [kind |-> "stale"]

\* an order that writes each artifact as soon as it is rendered
StatementOrderWritingAsRendered ==
  <<"checkHeader", "loadClassAst", "extractMethods", "buildTypeMetadata",
    "renderCpp", "writeCpp", "renderTs", "writeTs", "renderSdkApi", "writeSdkApi">>

\* the statements of generateBindings in program order
StatementOrder ==
  <<"checkHeader", "loadClassAst", "extractMethods", "buildTypeMetadata",
    "renderCpp", "renderTs", "renderSdkApi", "writeCpp", "writeTs", "writeSdkApi">>

After(label) ==
  LET i == CHOOSE k \in DOMAIN StatementOrder : StatementOrder[k] = label
  IN IF i = Len(StatementOrder) THEN "done" ELSE StatementOrder[i + 1]

NoTypeMetadata ==
  [enumDefs |-> <<>>, flagDefs |-> <<>>, enumLookup |-> EmptyMap,
   paramTypeOverrides |-> EmptyMap, returnTypeOverrides |-> EmptyMap,
   unresolvedEnumTypes |-> {}]

NoCall == [kind |-> "none"]

Throw(error) == pc' = "failed" /\ err' = error

CheckHeader ==
  /\ pc = "checkHeader"
  /\ IF env = "noHeader" THEN Throw("missingHeader")
     ELSE pc' = After("checkHeader") /\ err' = err
  /\ UNCHANGED <<env, classNode, filesBefore, files, methods, typeMetadata,
                 cppOut, tsOut, sdkApiOut, lastCall>>
  /\ UNCHANGED <<tree, probes, run, firstFiles, other>>

LoadClassAst ==
  /\ pc = "loadClassAst"
  /\ IF env = "noAst" THEN Throw("noAst")
     ELSE IF env = "noClass" THEN Throw("classNotFound")
     ELSE pc' = After("loadClassAst") /\ err' = err
  /\ UNCHANGED <<env, classNode, filesBefore, files, methods, typeMetadata,
                 cppOut, tsOut, sdkApiOut, lastCall>>
  /\ UNCHANGED <<tree, probes, run, firstFiles, other>>

ExtractMethods ==
  /\ pc = "extractMethods"
  /\ methods' = extractPublicMethodsFromClass(classNode)
  /\ pc' = After("extractMethods")
  /\ UNCHANGED <<env, classNode, filesBefore, files, err, typeMetadata,
                 cppOut, tsOut, sdkApiOut, lastCall>>
  /\ UNCHANGED <<tree, probes, run, firstFiles, other>>

BuildTypeMetadata ==
  /\ pc = "buildTypeMetadata"
  /\ typeMetadata' = buildTypeMetadata(methods, classNode)
  /\ probes' = ResolvedCandidates(methods, classNode).probes
  /\ pc' = After("buildTypeMetadata")
  /\ UNCHANGED <<env, classNode, filesBefore, files, err, methods,
                 cppOut, tsOut, sdkApiOut, lastCall>>
  /\ UNCHANGED <<tree, run, firstFiles, other>>

RenderCpp ==
  /\ pc = "renderCpp"
  /\ cppOut' = renderCppOutput(methods)
  /\ pc' = After("renderCpp")
  /\ UNCHANGED <<env, classNode, filesBefore, files, err, methods, typeMetadata,
                 tsOut, sdkApiOut, lastCall>>
  /\ UNCHANGED <<tree, probes, run, firstFiles, other>>

RenderTs ==
  /\ pc = "renderTs"
  /\ tsOut' = renderTsInterface(methods)
  /\ pc' = After("renderTs")
  /\ UNCHANGED <<env, classNode, filesBefore, files, err, methods, typeMetadata,
                 cppOut, sdkApiOut, lastCall>>
  /\ UNCHANGED <<tree, probes, run, firstFiles, other>>

RenderSdkApi ==
  /\ pc = "renderSdkApi"
  /\ \E out \in {renderJsbsimApiClass(methods, typeMetadata)} :
        IF out.kind = "threw"
          THEN Throw("namingCollision") /\ sdkApiOut' = sdkApiOut
          ELSE pc' = After("renderSdkApi") /\ err' = err /\ sdkApiOut' = out
  /\ UNCHANGED <<env, classNode, filesBefore, files, methods, typeMetadata,
                 cppOut, tsOut, lastCall>>
  /\ UNCHANGED <<tree, probes, run, firstFiles, other>>

\* fs.writeFileSync(path, content): the file holds the content, or the write throws
\* fs.writeFileSync with the flag "a": a file that exists keeps its contents
\* and the new ones follow
WriteFileAppending(label, path, content) ==
  /\ pc = label
  /\ \/ /\ files' = [files EXCEPT ![path] =
                       IF @ = Absent THEN content
                       ELSE [kind |-> "appended", first |-> @, then |-> content]]
        /\ pc' = After(label)
        /\ err' = err
     \/ Throw("writeFailed") /\ files' = files
  /\ UNCHANGED <<env, classNode, filesBefore, methods, typeMetadata,
                 cppOut, tsOut, sdkApiOut, lastCall>>
  /\ UNCHANGED <<tree, probes, run, firstFiles, other>>

WriteFile(label, path, content) ==
  /\ pc = label
  /\ \/ files' = [files EXCEPT ![path] = content] /\ pc' = After(label) /\ err' = err
     \/ Throw("writeFailed") /\ files' = files
  /\ UNCHANGED <<env, classNode, filesBefore, methods, typeMetadata,
                 cppOut, tsOut, sdkApiOut, lastCall>>
  /\ UNCHANGED <<tree, probes, run, firstFiles, other>>

WriteCpp == WriteFile("writeCpp", "CPP_OUT_PATH", cppOut)
WriteTs == WriteFile("writeTs", "TS_OUT_PATH", tsOut)
WriteSdkApi == WriteFile("writeSdkApi", "SDK_API_OUT_PATH", sdkApiOut)

\* the arguments of a call with n arguments
ArgValue(i) == IF i = 1 THEN "\"c172\"" ELSE "x" \o ToString(i)
CallArgs(n) == [i \in 1..n |-> ArgValue(i)]

\* a caller invokes one member of the class api with n arguments
CallMember(api, g, n) ==
  /\ lastCall' = [kind |-> "call",
                  member |-> api.members[g].camelName,
                  args |-> CallArgs(n),
                  rawName |-> api.members[g].sourceMethodName,
                  rawArgs |-> RawArgsOfCall(api.members[g], CallArgs(n))]
  /\ UNCHANGED <<env, classNode, filesBefore, files, pc, err, methods, typeMetadata,
                 cppOut, tsOut, sdkApiOut>>
  /\ UNCHANGED <<tree, probes, run, firstFiles, other>>

\* a call on the class that the finished run wrote
CallGenerated ==
  /\ pc = "done"
  /\ \E g \in DOMAIN files["SDK_API_OUT_PATH"].members, n \in 0..MaxArgs :
        CallMember(files["SDK_API_OUT_PATH"], g, n)

\* no WasmVfsManager and no JSBSimSdk.create in these runs
VfsAtRest ==
  /\ idbfsSupport = FALSE
  /\ idbMounted = FALSE
  /\ mountCount = 0
  /\ runtimeTree = EmptyMap
  /\ mountTree = EmptyMap
  /\ store = EmptyMap
  /\ calls = <<>>

SdkAtRest ==
  /\ createPc = "idle"
  /\ options = [persistence |-> FALSE, onLog |-> FALSE]
  /\ produced = <<>>
  /\ bufferedLogEntries = <<>>
  /\ emitSdkLog = FALSE
  /\ dispatched = <<>>
  /\ userSeen = <<>>
  /\ replayed = 0

FilesBefore == {[p \in OutputPaths |-> Absent], [p \in OutputPaths |-> Stale]}

Init ==
  /\ \/ env = "ok" /\ classNode \in ClassPool
     \/ env \in {"noHeader", "noAst", "noClass"} /\ classNode = <<>>
  /\ filesBefore \in FilesBefore
  /\ files = filesBefore
  /\ pc = "checkHeader"
  /\ err = "none"
  /\ methods = <<>>
  /\ typeMetadata = NoTypeMetadata
  /\ cppOut = NoOutput
  /\ tsOut = NoOutput
  /\ sdkApiOut = NoOutput
  /\ lastCall = NoCall
  /\ tree = NoHeaders
  /\ probes = <<>>
  /\ run = 1
  /\ firstFiles = filesBefore
  /\ compilers = <<>>
  /\ fsFailure = "none"
  /\ tmpDirs = {}
  /\ probePc = "idle"
  /\ spawned = <<>>
  /\ probeResult = NoAst
  /\ output = <<>>
  /\ parsed = NoAst
  /\ implementationAst = NoAst
  /\ VfsAtRest
  /\ SdkAtRest

Next ==
  \/ CheckHeader
  \/ LoadClassAst
  \/ ExtractMethods
  \/ BuildTypeMetadata
  \/ RenderCpp
  \/ RenderTs
  \/ RenderSdkApi
  \/ WriteCpp
  \/ WriteTs
  \/ WriteSdkApi
  \/ CallGenerated

Spec == Init /\ [][Next]_vars

\* runs over classes that declare overloads of one method
InitOverloads ==
  /\ env = "ok"
  /\ classNode \in OverloadClassPool
  /\ filesBefore \in FilesBefore
  /\ files = filesBefore
  /\ pc = "checkHeader"
  /\ err = "none"
  /\ methods = <<>>
  /\ typeMetadata = NoTypeMetadata
  /\ cppOut = NoOutput
  /\ tsOut = NoOutput
  /\ sdkApiOut = NoOutput
  /\ lastCall = NoCall
  /\ tree = NoHeaders
  /\ probes = <<>>
  /\ run = 1
  /\ firstFiles = filesBefore
  /\ compilers = <<>>
  /\ fsFailure = "none"
  /\ tmpDirs = {}
  /\ probePc = "idle"
  /\ spawned = <<>>
  /\ probeResult = NoAst
  /\ output = <<>>
  /\ parsed = NoAst
  /\ implementationAst = NoAst
  /\ VfsAtRest
  /\ SdkAtRest

\* the parameter types of the classes that declare one method void Foo(...)
ParamTypePool ==
  {T_bool, CType(TRUE, <<Id_bool>>, "&"), T_int, T_double, CType(TRUE, <<Id_double>>, "&"),
   T_string, T_constStringRef, T_constSGPathRef, T_handle,
   CType(FALSE, <<Id_FGPropertyManager>>, "&"), CType(TRUE, <<Id_FGPropertyManager>>, "&"),
   CType(FALSE, <<Id_FGPropertyManager>>, ""), T_eMode}

TypedClassPool ==
  {<<AccessSpec("public"),
     MethodDecl(Id_Foo, T_void, [i \in DOMAIN types |-> Parm(OverloadParamName(i), types[i])])>> :
     types \in UNION {[1..n -> ParamTypePool] : n \in 1..MaxParams}}

\* runs over classes that declare one method with parameters of every kind
InitTypes ==
  /\ env = "ok"
  /\ classNode \in TypedClassPool
  /\ filesBefore \in FilesBefore
  /\ files = filesBefore
  /\ pc = "checkHeader"
  /\ err = "none"
  /\ methods = <<>>
  /\ typeMetadata = NoTypeMetadata
  /\ cppOut = NoOutput
  /\ tsOut = NoOutput
  /\ sdkApiOut = NoOutput
  /\ lastCall = NoCall
  /\ tree = NoHeaders
  /\ probes = <<>>
  /\ run = 1
  /\ firstFiles = filesBefore
  /\ compilers = <<>>
  /\ fsFailure = "none"
  /\ tmpDirs = {}
  /\ probePc = "idle"
  /\ spawned = <<>>
  /\ probeResult = NoAst
  /\ output = <<>>
  /\ parsed = NoAst
  /\ implementationAst = NoAst
  /\ VfsAtRest
  /\ SdkAtRest

SpecTypes == InitTypes /\ [][Next]_vars

\* enum eRates declared outside the class, in some header of the tree
Id_eRates == <<"e","R","a","t","e","s">>
Id_FGPropagate == <<"F","G","P","r","o","p","a","g","a","t","e">>
Id_Mode == <<"M","o","d","e">>
Id_rates == <<"r","a","t","e","s">>

T_eRates == CType(FALSE, <<Id_eRates>>, "")
T_namespacedERates == CType(FALSE, <<NS_JSBSim, Id_eRates>>, "")
T_scopedERates == CType(FALSE, <<Id_FGPropagate, Id_eRates>>, "")

ExternalEnumTypes == {T_eRates, T_namespacedERates, T_scopedERates}

\* enum Mode { tA, tB };   a second enum of the class, next to eMode
Decl_Mode == EnumDecl(Id_Mode, <<EnumConstant(Id_tA), EnumConstant(Id_tB)>>)

\* an enumerator with an initializer: tA = <value>
EnumConstantWithValue(name, value) ==
  [kind |-> "EnumConstantDecl", name |-> name,
   inner |-> <<[kind |-> "ConstantExpr", value |-> ToString(value), inner |-> <<>>]>>]

\* what the compiler dumps for a probe of the header at a place of the
\* traversal: enum eRates with one enumerator whose value is that place, or
\* enum eRates without enumerators
HeaderAst(declares, place) ==
  [kind |-> "TranslationUnitDecl",
   inner |-> <<EnumDecl(Id_eRates,
                 IF declares = "enum" THEN <<EnumConstantWithValue(Id_tA, place)>> ELSE <<>>)>>]

PathLengths == {1, 2}

HeaderShapes ==
  [pathLength : {1}, tokens : {{}, {Id_eRates}}, compiles : {NoSpelling}, declares : {"empty"}]
  \cup [pathLength : PathLengths, tokens : {{Id_eRates}}, compiles : ExternalEnumTypes,
        declares : {"enum", "empty"}]

TreePool ==
  {[i \in DOMAIN shapes |->
      [pathLength |-> shapes[i].pathLength, tokens |-> shapes[i].tokens,
       compiles |-> shapes[i].compiles, ast |-> HeaderAst(shapes[i].declares, i)]] :
     shapes \in UNION {[1..n -> HeaderShapes] : n \in 0..MaxHeaders}}

\* classes with one method that takes the external enum, after no enum of
\* their own or after the two enums eMode and Mode
EnumClassPool ==
  {<<AccessSpec("public"), MethodDecl(Id_Foo, T_void, <<Parm(Id_rates, type)>>)>> :
     type \in ExternalEnumTypes}
  \cup {<<AccessSpec("public"), Decl_eMode, Decl_Mode,
          MethodDecl(Id_Foo, T_void, <<Parm(Id_rates, T_eRates)>>)>>}

\* runs over classes that use an enum declared in the headers of the tree
InitEnums ==
  /\ env = "ok"
  /\ classNode \in EnumClassPool
  /\ filesBefore = [p \in OutputPaths |-> Absent]
  /\ files = filesBefore
  /\ pc = "checkHeader"
  /\ err = "none"
  /\ methods = <<>>
  /\ typeMetadata = NoTypeMetadata
  /\ cppOut = NoOutput
  /\ tsOut = NoOutput
  /\ sdkApiOut = NoOutput
  /\ lastCall = NoCall
  /\ tree \in TreePool
  /\ probes = <<>>
  /\ run = 1
  /\ firstFiles = filesBefore
  /\ compilers = <<>>
  /\ fsFailure = "none"
  /\ tmpDirs = {}
  /\ probePc = "idle"
  /\ spawned = <<>>
  /\ probeResult = NoAst
  /\ output = <<>>
  /\ parsed = NoAst
  /\ implementationAst = NoAst
  /\ VfsAtRest
  /\ SdkAtRest

SpecEnums == InitEnums /\ [][Next]_vars

\* members of a class that are no public method: a method the compiler
\* declared, methods with the names of the constructor and the destructor, a
\* method whose type string holds no "(", a data member
Decl_implicit == [MethodDecl(Id_foo, T_void, <<>>) EXCEPT !.isImplicit = TRUE]
Decl_constructorName == MethodDecl(CLASS_NAME, T_void, <<>>)
Decl_destructorName == MethodDecl(<<"~">> \o CLASS_NAME, T_void, <<>>)
Decl_noReturnType ==
  [MethodDecl(Id_Foo, T_void, <<>>) EXCEPT !.type = [hasParen |-> FALSE, ret |-> NoType]]
Decl_field == [kind |-> "FieldDecl", name |-> Id_mode, inner |-> <<>>]

ExtractionMemberPool ==
  {AccessSpec("public"), AccessSpec("protected"), AccessSpec("private"),
   Decl_Run, Decl_RunIC, Decl_implicit, Decl_constructorName, Decl_destructorName,
   Decl_noReturnType, Decl_field}

MemberClassPool ==
  {members \in UNION {[1..n -> ExtractionMemberPool] : n \in 1..MaxMembers} :
     NoRedeclaration(members)}

\* names of parameters as declared: none, x, x_1, arg0, arg1
Id_x == <<"x">>
Id_x_1 == <<"x", "_", "1">>
Id_arg0 == <<"a", "r", "g", "0">>
Id_arg1 == <<"a", "r", "g", "1">>

ParamNamePool == {<<>>, Id_x, Id_x_1, Id_arg0, Id_arg1}

\* void Foo(int <name>, ...) with up to MaxParams + 1 parameters
NamedParamClassPool ==
  {<<AccessSpec("public"),
     MethodDecl(Id_Foo, T_void, [i \in DOMAIN names |-> Parm(names[i], T_int)])>> :
     names \in UNION {[1..n -> ParamNamePool] : n \in 1..(MaxParams + 1)}}

\* initializers of a parameter, as the compiler dumps them
FloatingLiteral(text) == [kind |-> "FloatingLiteral", value |-> text, inner |-> <<>>]
UnaryOperator(opcode, operand) ==
  [kind |-> "UnaryOperator", opcode |-> opcode, inner |-> <<operand>>]
Wrapped(kind, expr) == [kind |-> kind, inner |-> <<expr>>]
DeclRefExpr == [kind |-> "DeclRefExpr", inner |-> <<>>]
CallExpr(arguments) ==
  [kind |-> "CallExpr", inner |-> <<Wrapped("ImplicitCastExpr", DeclRefExpr)>> \o arguments]
CXXConstructExpr(arguments) == [kind |-> "CXXConstructExpr", inner |-> arguments]

\* = true, = 1, = 1.5, = -2, = +1, = (1), = "s", = std::string(),
\* = !true, = kDefault, = f(), = f("s"), = f() + 1
LiteralInitializers ==
  {BoolLiteral("true"), BoolLiteral("false"),
   IntegerLiteral("1"), FloatingLiteral("1.5"),
   UnaryOperator("-", IntegerLiteral("2")), UnaryOperator("+", FloatingLiteral("1.5")),
   Wrapped("ParenExpr", IntegerLiteral("1")),
   Wrapped("ImplicitCastExpr", StringLiteral("\"s\"")),
   Wrapped("ExprWithCleanups",
     Wrapped("MaterializeTemporaryExpr",
       Wrapped("ImplicitCastExpr",
         CXXConstructExpr(<<Wrapped("ImplicitCastExpr", StringLiteral("\"s\""))>>))))}

DefaultConstructedInitializers ==
  {Wrapped("ExprWithCleanups", Wrapped("MaterializeTemporaryExpr", CXXConstructExpr(<<>>)))}

OtherInitializers ==
  {UnaryOperator("!", BoolLiteral("true")),
   Wrapped("ImplicitCastExpr", DeclRefExpr),
   CallExpr(<<>>),
   CallExpr(<<Wrapped("ImplicitCastExpr", StringLiteral("\"s\""))>>),
   [kind |-> "BinaryOperator", opcode |-> "+", inner |-> <<CallExpr(<<>>), IntegerLiteral("1")>>]}

InitializerPool == LiteralInitializers \cup DefaultConstructedInitializers \cup OtherInitializers

\* void Foo(<type> x = <initializer>)
InitializerClassPool ==
  {<<AccessSpec("public"), MethodDecl(Id_Foo, T_void, <<ParmInit(Id_x, type, expr)>>)>> :
     type \in {T_bool, T_int, T_double, T_constStringRef, T_constSGPathRef},
     expr \in InitializerPool}

\* runs over classes that put each rule of the extraction to use
InitExtraction ==
  /\ env = "ok"
  /\ classNode \in MemberClassPool \cup NamedParamClassPool \cup InitializerClassPool
  /\ filesBefore = [p \in OutputPaths |-> Absent]
  /\ files = filesBefore
  /\ pc = "checkHeader"
  /\ err = "none"
  /\ methods = <<>>
  /\ typeMetadata = NoTypeMetadata
  /\ cppOut = NoOutput
  /\ tsOut = NoOutput
  /\ sdkApiOut = NoOutput
  /\ lastCall = NoCall
  /\ tree = NoHeaders
  /\ probes = <<>>
  /\ run = 1
  /\ firstFiles = filesBefore
  /\ compilers = <<>>
  /\ fsFailure = "none"
  /\ tmpDirs = {}
  /\ probePc = "idle"
  /\ spawned = <<>>
  /\ probeResult = NoAst
  /\ output = <<>>
  /\ parsed = NoAst
  /\ implementationAst = NoAst
  /\ VfsAtRest
  /\ SdkAtRest

SpecExtraction == InitExtraction /\ [][Next]_vars

\* enumerators of the class enums: without initializer, with a literal, or
\* with a sum of two literals that the compiler has folded to its value
ExplicitValues == {0, 2, 5}

EnumConstantWithSum(name, value) ==
  [kind |-> "EnumConstantDecl", name |-> name,
   inner |-> <<[kind |-> "ConstantExpr", value |-> ToString(value),
                inner |-> <<[kind |-> "BinaryOperator", opcode |-> "+",
                             inner |-> <<IntegerLiteral(ToString(value - 1)),
                                         IntegerLiteral("1")>>]>>]>>]

EnumeratorNames == <<Id_tA, Id_tB, Id_tC, <<"t","D">>, <<"t","E">>>>

EnumeratorPool(name) ==
  {EnumConstant(name)}
  \cup {EnumConstantWithValue(name, value) : value \in ExplicitValues}
  \cup {EnumConstantWithSum(name, 5)}

EnumeratedClassPool ==
  {<<AccessSpec("public"), EnumDecl(Id_eMode, constants)>> :
     constants \in UNION {{cs \in [1..n -> UNION {EnumeratorPool(EnumeratorNames[i]) : i \in 1..n}] :
                             \A i \in 1..n : cs[i].name = EnumeratorNames[i]} :
                          n \in 1..MaxMembers}}

\* a static data member of the class with a literal as its initializer;
\* modeFlagsFor is the name matched by /Mode flags for ([A-Za-z_][A-Za-z0-9_]*)/
\* in the text of its comment, empty when there is no match
StaticConstant(name, type, literal, modeFlagsFor) ==
  [kind |-> "VarDecl", name |-> name, storageClass |-> "static", type |-> type,
   modeFlagsFor |-> modeFlagsFor, inner |-> <<literal>>]

Id_fA == <<"f","A">>
Id_fB == <<"f","B">>
Id_fC == <<"f","C">>
Id_fD == <<"f","D">>
T_unsigned_int == CType(FALSE, <<Id_unsigned_int>>, "")

Flag_forFoo == StaticConstant(Id_fA, T_int, IntegerLiteral("1"), Id_Foo)
Flag_forRun == StaticConstant(Id_fB, T_unsigned_int, IntegerLiteral("2"), Id_Run)
Flag_plain == StaticConstant(Id_fC, T_int, IntegerLiteral("4"), <<>>)
Constant_double == StaticConstant(Id_fD, T_double, FloatingLiteral("1.5"), <<>>)
\* enum eMode : int; declared and not defined
Decl_opaqueEnum == EnumDecl(Id_eMode, <<>>)

FlagMemberPool ==
  {AccessSpec("public"), AccessSpec("private"), Flag_forFoo, Flag_forRun, Flag_plain,
   Constant_double, Decl_opaqueEnum, Decl_Foo}

\* classes that open their public region and then declare up to MaxMembers
\* members, a flag constant among them
FlagClassPool ==
  {<<AccessSpec("public")>> \o members :
     members \in {ms \in UNION {[1..n -> FlagMemberPool] : n \in 1..MaxMembers} :
                    /\ NoRedeclaration(ms)
                    /\ \E i \in DOMAIN ms : ms[i] \in {Flag_forFoo, Flag_forRun, Flag_plain}}}

\* runs over classes with enums and with flag constants
InitMetadata ==
  /\ env = "ok"
  /\ classNode \in EnumeratedClassPool \cup FlagClassPool
  /\ filesBefore = [p \in OutputPaths |-> Absent]
  /\ files = filesBefore
  /\ pc = "checkHeader"
  /\ err = "none"
  /\ methods = <<>>
  /\ typeMetadata = NoTypeMetadata
  /\ cppOut = NoOutput
  /\ tsOut = NoOutput
  /\ sdkApiOut = NoOutput
  /\ lastCall = NoCall
  /\ tree = NoHeaders
  /\ probes = <<>>
  /\ run = 1
  /\ firstFiles = filesBefore
  /\ compilers = <<>>
  /\ fsFailure = "none"
  /\ tmpDirs = {}
  /\ probePc = "idle"
  /\ spawned = <<>>
  /\ probeResult = NoAst
  /\ output = <<>>
  /\ parsed = NoAst
  /\ implementationAst = NoAst
  /\ VfsAtRest
  /\ SdkAtRest

SpecMetadata == InitMetadata /\ [][Next]_vars

\* the implementation file: definitions of methods with casts of their
\* parameters in their bodies
Id_GetMode == <<"G","e","t","M","o","d","e">>
Id_a == <<"a">>
Id_b == <<"b">>
T_Mode == CType(FALSE, <<Id_Mode>>, "")

ImplParm(id, type) ==
  [kind |-> "ParmVarDecl", id |-> id, name |-> Id_a, type |-> type, inner |-> <<>>]

ParamRef(id) ==
  [kind |-> "DeclRefExpr", referencedDecl |-> [kind |-> "ParmVarDecl", id |-> id],
   inner |-> <<>>]

\* (type)parameter
CastOfParam(type, id) ==
  [kind |-> "CStyleCastExpr", type |-> type,
   inner |-> <<Wrapped("ImplicitCastExpr", ParamRef(id))>>]

\* the definition of a method whose body holds the given statements; the
\* parameters get the ids "p1", "p2", ... of their places
MethodDefinition(name, paramTypes, statements) ==
  [kind |-> "CXXMethodDecl", name |-> name,
   inner |-> [i \in DOMAIN paramTypes |-> ImplParm("p" \o ToString(i), paramTypes[i])]
             \o <<[kind |-> "CompoundStmt", inner |-> statements]>>]

ImplementationMethodPool ==
  {MethodDefinition(Id_Foo, <<T_int>>, <<CastOfParam(T_Mode, "p1")>>),
   MethodDefinition(Id_Foo, <<T_double>>, <<CastOfParam(T_Mode, "p1")>>),
   MethodDefinition(Id_Foo, <<T_int>>, <<CastOfParam(T_eRates, "p1")>>),
   MethodDefinition(Id_Foo, <<T_int, T_int>>, <<CastOfParam(T_Mode, "p2")>>),
   MethodDefinition(Id_Foo, <<T_int>>, <<>>)}

ImplementationPool ==
  {NoAst}
  \cup {[kind |-> "TranslationUnitDecl", inner |-> definitions] :
          definitions \in {ds \in UNION {[1..n -> ImplementationMethodPool] : n \in 0..2} :
                             \A i, j \in DOMAIN ds : i # j => ds[i] # ds[j]}}

\* methods of the header the overrides are made for
Flag_forSetMode == StaticConstant(Id_fB, T_int, IntegerLiteral("2"), Id_SetMode)

OverrideMethodPool ==
  {MethodDecl(Id_Foo, T_void, <<Parm(Id_a, T_int)>>),
   MethodDecl(Id_Foo, T_void, <<Parm(Id_a, T_double)>>),
   MethodDecl(Id_Foo, T_void, <<Parm(Id_a, T_int), Parm(Id_b, T_int)>>),
   MethodDecl(Id_SetMode, T_void, <<Parm(Id_a, T_int)>>),
   MethodDecl(Id_SetMode, T_void, <<Parm(Id_a, T_int), Parm(Id_b, T_int)>>),
   MethodDecl(Id_SetMode, T_void, <<Parm(Id_a, T_bool)>>),
   MethodDecl(Id_GetMode, T_int, <<>>),
   MethodDecl(Id_GetMode, T_int, <<Parm(Id_a, T_int)>>),
   MethodDecl(Id_GetMode, T_bool, <<>>)}

\* a method cannot be declared twice with the same parameter types
NoSameSignature(decls) ==
  \A i, j \in DOMAIN decls :
     i # j => <<decls[i].name, ParamTypesOf(decls[i])>> # <<decls[j].name, ParamTypesOf(decls[j])>>

OverrideMethodLists ==
  {ds \in UNION {[1..n -> OverrideMethodPool] : n \in 1..2} : NoSameSignature(ds)}

\* classes with the enum Mode, with or without flag constants for Foo and
\* for SetMode, and one or two methods
OverrideClassPool ==
  {<<AccessSpec("public"), Decl_Mode>> \o decls : decls \in OverrideMethodLists}
  \cup {<<AccessSpec("public"), Decl_Mode, Flag_forFoo, Flag_forSetMode, decl>> :
          decl \in OverrideMethodPool}

InitOverrides ==
  /\ env = "ok"
  /\ classNode \in OverrideClassPool
  /\ filesBefore = [p \in OutputPaths |-> Absent]
  /\ files = filesBefore
  /\ pc = "checkHeader"
  /\ err = "none"
  /\ methods = <<>>
  /\ typeMetadata = NoTypeMetadata
  /\ cppOut = NoOutput
  /\ tsOut = NoOutput
  /\ sdkApiOut = NoOutput
  /\ lastCall = NoCall
  /\ tree = NoHeaders
  /\ probes = <<>>
  /\ run = 1
  /\ firstFiles = filesBefore
  /\ compilers = <<>>
  /\ fsFailure = "none"
  /\ tmpDirs = {}
  /\ probePc = "idle"
  /\ spawned = <<>>
  /\ probeResult = NoAst
  /\ output = <<>>
  /\ parsed = NoAst
  /\ implementationAst \in ImplementationPool
  /\ VfsAtRest
  /\ SdkAtRest

SpecOverrides == InitOverrides /\ [][Next]_vars

\* candidates for enums: a type with the name the class enum Mode gets in
\* the generated code, declared as an enum of its own in a header of the tree
Id_FGFDMExecMode == CLASS_NAME \o Id_Mode
T_FGFDMExecMode == CType(FALSE, <<Id_FGFDMExecMode>>, "")

\* a header that declares enum <name> { tA } and compiles with the bare name,
\* or that only mentions the name
HeaderDeclaring(name, compiles) ==
  [pathLength |-> 1, tokens |-> {name},
   compiles |-> IF compiles THEN CType(FALSE, <<name>>, "") ELSE NoSpelling,
   ast |-> [kind |-> "TranslationUnitDecl",
            inner |-> <<EnumDecl(name, <<EnumConstant(Id_tA)>>)>>]]

CandidateHeaderPool ==
  {HeaderDeclaring(name, compiles) : name \in {Id_FGFDMExecMode, Id_eRates},
                                     compiles \in BOOLEAN}

CandidateTreePool ==
  {hs \in UNION {[1..n -> CandidateHeaderPool] : n \in 0..MaxHeaders} :
     \A i, j \in DOMAIN hs : i # j => hs[i] # hs[j]}

CandidateClassPool ==
  {<<AccessSpec("public")>> \o enums
     \o <<MethodDecl(Id_Foo, ret, <<Parm(Id_a, type)>>)>> :
     enums \in {<<>>, <<Decl_Mode>>},
     ret \in {T_void, T_eRates},
     type \in {T_int, T_eRates, T_FGFDMExecMode}}

CandidateImplementationPool ==
  {NoAst}
  \cup {[kind |-> "TranslationUnitDecl",
         inner |-> <<MethodDefinition(Id_Foo, <<T_int>>, <<CastOfParam(type, "p1")>>)>>] :
          type \in {T_eRates, T_FGFDMExecMode}}

InitCandidates ==
  /\ env = "ok"
  /\ classNode \in CandidateClassPool
  /\ filesBefore = [p \in OutputPaths |-> Absent]
  /\ files = filesBefore
  /\ pc = "checkHeader"
  /\ err = "none"
  /\ methods = <<>>
  /\ typeMetadata = NoTypeMetadata
  /\ cppOut = NoOutput
  /\ tsOut = NoOutput
  /\ sdkApiOut = NoOutput
  /\ lastCall = NoCall
  /\ tree \in CandidateTreePool
  /\ probes = <<>>
  /\ run = 1
  /\ firstFiles = filesBefore
  /\ compilers = <<>>
  /\ fsFailure = "none"
  /\ tmpDirs = {}
  /\ probePc = "idle"
  /\ spawned = <<>>
  /\ probeResult = NoAst
  /\ output = <<>>
  /\ parsed = NoAst
  /\ implementationAst \in CandidateImplementationPool
  /\ VfsAtRest
  /\ SdkAtRest

SpecCandidates == InitCandidates /\ [][Next]_vars

\* generateBindings is started again on the same header, tree and compiler
RunAgain ==
  /\ pc = "done"
  /\ run < MaxRuns
  /\ run' = run + 1
  /\ firstFiles' = IF run = 1 THEN files ELSE firstFiles
  /\ filesBefore' = files
  /\ pc' = "checkHeader"
  /\ err' = "none"
  /\ methods' = <<>>
  /\ typeMetadata' = NoTypeMetadata
  /\ probes' = <<>>
  /\ cppOut' = NoOutput
  /\ tsOut' = NoOutput
  /\ sdkApiOut' = NoOutput
  /\ lastCall' = NoCall
  /\ UNCHANGED <<env, classNode, files, tree, other>>

NextTwice ==
  \/ CheckHeader
  \/ LoadClassAst
  \/ ExtractMethods
  \/ BuildTypeMetadata
  \/ RenderCpp
  \/ RenderTs
  \/ RenderSdkApi
  \/ WriteCpp
  \/ WriteTs
  \/ WriteSdkApi
  \/ RunAgain

\* repeated runs over classes that use an enum declared in the tree
SpecTwice == InitEnums /\ [][NextTwice]_vars


SpecOverloads == InitOverloads /\ [][Next]_vars

----------------------------------------------------------------------------
(* AST acquisition: parseClangJsonOutput, runClangAstDumpFromFile and       *)
(* runClangAstDumpFromSource.  A text is a sequence of one-character        *)
(* strings.  The modelled texts are made of braces, quotes, backslashes,    *)
(* colons, commas, letters, blanks and line feeds, so the JSON values are   *)
(* objects and strings.                                                     *)

WhiteSpace == {" ", "\n"}

RECURSIVE TrimStart(_)
TrimStart(s) == IF s # <<>> /\ Head(s) \in WhiteSpace THEN TrimStart(Tail(s)) ELSE s

RECURSIVE TrimEnd(_)
TrimEnd(s) ==
  IF s # <<>> /\ s[Len(s)] \in WhiteSpace THEN TrimEnd(SubSeq(s, 1, Len(s) - 1)) ELSE s

Trim(s) == TrimEnd(TrimStart(s))

\* JSON.parse throws
SyntaxError == [ok |-> FALSE]

JsonParsed(value, rest) == [ok |-> TRUE, value |-> value, rest |-> rest]

JsonString(text) == [kind |-> "string", text |-> text]
JsonObject(members) == [kind |-> "object", members |-> members]

\* the rest of a string literal after its opening quote
RECURSIVE JsonStringFrom(_, _)
JsonStringFrom(s, text) ==
  IF s = <<>> THEN SyntaxError
  ELSE IF Head(s) = "\"" THEN JsonParsed(JsonString(text), Tail(s))
  ELSE IF Head(s) = "\n" THEN SyntaxError
  ELSE IF Head(s) = "\\"
    THEN IF Len(s) >= 2 /\ s[2] \in {"\"", "\\"}
           THEN JsonStringFrom(Tail(Tail(s)), Append(text, s[2]))
           ELSE SyntaxError
  ELSE JsonStringFrom(Tail(s), Append(text, Head(s)))

\* a property set twice keeps its place and takes the later value
SetMember(members, key, value) ==
  IF \E i \in DOMAIN members : members[i].key = key
    THEN [i \in DOMAIN members |->
            IF members[i].key = key THEN [key |-> key, value |-> value] ELSE members[i]]
    ELSE Append(members, [key |-> key, value |-> value])

RECURSIVE JsonValue(_)
RECURSIVE JsonMembers(_, _)
RECURSIVE JsonMemberValue(_, _)
RECURSIVE JsonMemberEnd(_, _)
JsonValue(text) ==
  LET s == TrimStart(text)
  IN IF s = <<>> THEN SyntaxError
     ELSE IF Head(s) = "\"" THEN JsonStringFrom(Tail(s), <<>>)
     ELSE IF Head(s) # "{" THEN SyntaxError
     ELSE IF TrimStart(Tail(s)) # <<>> /\ Head(TrimStart(Tail(s))) = "}"
       THEN JsonParsed(JsonObject(<<>>), Tail(TrimStart(Tail(s))))
     ELSE JsonMembers(Tail(s), <<>>)

\* "key" : value after "{" or ","
JsonMembers(text, members) ==
  LET s == TrimStart(text)
  IN IF s = <<>> \/ Head(s) # "\"" THEN SyntaxError
     ELSE JsonMemberValue(JsonStringFrom(Tail(s), <<>>), members)

JsonMemberValue(key, members) ==
  IF ~key.ok THEN SyntaxError
  ELSE IF TrimStart(key.rest) = <<>> \/ Head(TrimStart(key.rest)) # ":" THEN SyntaxError
  ELSE JsonMemberEnd(JsonValue(Tail(TrimStart(key.rest))),
                     [members |-> members, key |-> key.value.text])

JsonMemberEnd(value, st) ==
  IF ~value.ok THEN SyntaxError
  ELSE IF TrimStart(value.rest) = <<>> THEN SyntaxError
  ELSE IF Head(TrimStart(value.rest)) = "}"
    THEN JsonParsed(JsonObject(SetMember(st.members, st.key, value.value)),
                    Tail(TrimStart(value.rest)))
  ELSE IF Head(TrimStart(value.rest)) = ","
    THEN JsonMembers(Tail(TrimStart(value.rest)), SetMember(st.members, st.key, value.value))
  ELSE SyntaxError

\* JSON.parse: one value and nothing but blanks after it
JSONparse(text) ==
  LET Whole(r) == IF r.ok /\ TrimStart(r.rest) = <<>> THEN [ok |-> TRUE, value |-> r.value]
                  ELSE SyntaxError
  IN Whole(JsonValue(text))

\* the loop over the characters; start = 0 stands for -1;
\* st = [start, depth, inString, escaped, docs, failed], failed for the
\* return of null from inside the loop
RECURSIVE ScanDocuments(_, _, _)
ScanDocuments(trimmed, index, st) ==
  IF index > Len(trimmed) THEN st
  ELSE
    LET ch == trimmed[index]
    IN IF st.start = 0
         THEN ScanDocuments(trimmed, index + 1,
                IF ch = "{"
                  THEN [st EXCEPT !.start = index, !.depth = 1,
                                  !.inString = FALSE, !.escaped = FALSE]
                  ELSE st)
       ELSE IF st.inString
         THEN ScanDocuments(trimmed, index + 1,
                IF st.escaped THEN [st EXCEPT !.escaped = FALSE]
                ELSE IF ch = "\\" THEN [st EXCEPT !.escaped = TRUE]
                ELSE IF ch = "\"" THEN [st EXCEPT !.inString = FALSE]
                ELSE st)
       ELSE IF ch = "\""
         THEN ScanDocuments(trimmed, index + 1, [st EXCEPT !.inString = TRUE])
       ELSE IF ch = "{"
         THEN ScanDocuments(trimmed, index + 1, [st EXCEPT !.depth = @ + 1])
       ELSE IF ch = "}"
         THEN IF st.depth - 1 = 0
                THEN IF JSONparse(SubSeq(trimmed, st.start, index)).ok
                       THEN ScanDocuments(trimmed, index + 1,
                              [st EXCEPT !.depth = 0, !.start = 0,
                                 !.docs = Append(@, JSONparse(SubSeq(trimmed, st.start, index)).value)])
                       ELSE [st EXCEPT !.failed = TRUE]
                ELSE ScanDocuments(trimmed, index + 1, [st EXCEPT !.depth = @ - 1])
       ELSE ScanDocuments(trimmed, index + 1, st)

ClangAstDocumentSet(docs) == [kind |-> "ClangAstDocumentSet", inner |-> docs]

parseClangJsonOutputWholeOnly(text) ==
  IF JSONparse(Trim(text)).ok THEN JSONparse(Trim(text)).value ELSE NoAst

parseClangJsonOutput(text) ==
  LET Documents(scanned) ==
        IF scanned.failed THEN NoAst
        ELSE IF Len(scanned.docs) = 0 THEN NoAst
        ELSE IF Len(scanned.docs) = 1 THEN scanned.docs[1]
        ELSE ClangAstDocumentSet(scanned.docs)
      Parse(trimmed) ==
        IF trimmed = <<>> THEN NoAst
        ELSE IF JSONparse(trimmed).ok THEN JSONparse(trimmed).value
        ELSE Documents(ScanDocuments(trimmed, 1,
               [start |-> 0, depth |-> 0, inString |-> FALSE, escaped |-> FALSE,
                docs |-> <<>>, failed |-> FALSE]))
  IN Parse(Trim(text))

ParseClangJsonOutput ==
  /\ probePc = "parse"
  /\ parsed' = parseClangJsonOutput(output)
  /\ probePc' = "parsed"
  /\ UNCHANGED <<generatorVars, compilers, fsFailure, tmpDirs, spawned, probeResult, output,
                 implementationAst,
                 vfsVars, sdkVars>>

\* generateBindings is not running
GeneratorAtRest ==
  /\ env = "ok"
  /\ classNode = <<>>
  /\ filesBefore = [p \in OutputPaths |-> Absent]
  /\ files = filesBefore
  /\ pc = "idle"
  /\ err = "none"
  /\ methods = <<>>
  /\ typeMetadata = NoTypeMetadata
  /\ cppOut = NoOutput
  /\ tsOut = NoOutput
  /\ sdkApiOut = NoOutput
  /\ lastCall = NoCall
  /\ tree = NoHeaders
  /\ probes = <<>>
  /\ run = 1
  /\ firstFiles = filesBefore

\* the pieces the given texts are made of
Txt_emptyObject == <<"{", "}">>
Txt_nested == <<"{", "\"", "a", "\"", ":", "{", "}", "}">>
Txt_braceInString == <<"{", "\"", "a", "\"", ":", "\"", "}", "{", "\"", "}">>
Txt_escapedQuote == <<"{", "\"", "a", "\"", ":", "\"", "\\", "\"", "}", "\"", "}">>
Txt_escapedBackslash == <<"{", "\"", "a", "\"", ":", "\"", "\\", "\\", "\"", "}">>
Txt_noJson == <<"{", "a", "}">>
Txt_open == <<"{", "\"", "a", "\"", ":">>
Txt_word == <<"a">>
Txt_blank == <<" ", "\n">>
Txt_string == <<"\"", "a", "\"">>
Txt_comma == <<",">>

TextPieces ==
  {Txt_emptyObject, Txt_nested, Txt_braceInString, Txt_escapedQuote, Txt_escapedBackslash,
   Txt_noJson, Txt_open, Txt_word, Txt_blank, Txt_string, Txt_comma}

OutputPool == {Concat(pieces) : pieces \in UNION {[1..n -> TextPieces] : n \in 0..MaxPieces}}

InitParse ==
  /\ GeneratorAtRest
  /\ compilers = <<>>
  /\ fsFailure = "none"
  /\ tmpDirs = {}
  /\ probePc = "parse"
  /\ spawned = <<>>
  /\ probeResult = NoAst
  /\ output \in OutputPool
  /\ parsed = NoAst
  /\ implementationAst = NoAst
  /\ VfsAtRest
  /\ SdkAtRest

SpecParse == InitParse /\ [][ParseClangJsonOutput]_vars

\* const compilers = ["clang++", "clang"], the second first
CompilerNamesClangFirst == <<"clang", "clang++">>

CompilerNames == <<"clang++", "clang">>

\* names mkdtempSync can give to a directory: AST_TMP_PREFIX and six characters
TmpNames == {"jsbsim-bindgen-a", "jsbsim-bindgen-b"}

\* fs.mkdtempSync: a directory that did not exist, or an exception
MakeTempDir ==
  /\ probePc = "mkdtemp"
  /\ IF fsFailure = "mkdtemp"
       THEN probePc' = "thrown" /\ tmpDirs' = tmpDirs
       ELSE \E tempDir \in TmpNames \ tmpDirs :
              tmpDirs' = tmpDirs \cup {tempDir} /\ probePc' = "writeFile"
  /\ UNCHANGED <<generatorVars, compilers, fsFailure, spawned, probeResult, output, parsed, implementationAst,
                 vfsVars, sdkVars>>

\* fs.writeFileSync(tempSourcePath, source), before the try statement
WriteProbeSource ==
  /\ probePc = "writeFile"
  /\ probePc' = IF fsFailure = "writeFile" THEN "thrown" ELSE "spawn"
  /\ UNCHANGED <<generatorVars, compilers, fsFailure, tmpDirs, spawned, probeResult,
                 output, parsed, implementationAst,
                 vfsVars, sdkVars>>

\* one turn of the loop of runClangAstDumpFromFile, inside the try statement
SpawnCompiler ==
  /\ probePc = "spawn"
  /\ IF Len(spawned) = Len(CompilerNames)
       THEN /\ spawned' = spawned
            /\ probeResult' = NoAst
            /\ probePc' = "finally"
       ELSE LET compiler == CompilerNames[Len(spawned) + 1]
                result == compilers[compiler]
            IN /\ spawned' = Append(spawned, compiler)
               /\ IF result.error \/ result.status # 0
                    THEN probeResult' = probeResult /\ probePc' = probePc
                  ELSE IF parseClangJsonOutput(result.stdout) = NoAst
                    THEN probeResult' = probeResult /\ probePc' = probePc
                  ELSE /\ probeResult' = parseClangJsonOutput(result.stdout)
                       /\ probePc' = "finally"
  /\ UNCHANGED <<generatorVars, compilers, fsFailure, tmpDirs, output, parsed, implementationAst,
                 vfsVars, sdkVars>>

\* fs.rmSync(tempDir, { recursive: true, force: true }) of the finally block;
\* the directory of the call is the only one there is
RemoveTempDir ==
  /\ probePc = "finally"
  /\ tmpDirs' = {}
  /\ probePc' = "returned"
  /\ UNCHANGED <<generatorVars, compilers, fsFailure, spawned, probeResult, output, parsed, implementationAst,
                 vfsVars, sdkVars>>

\* what spawnSync gives: an error, or a status and the text on stdout
SpawnResults ==
  {[error |-> TRUE, status |-> 1, stdout |-> <<>>]}
  \cup [error : {FALSE}, status : {0, 1},
        stdout : {<<>>, Txt_emptyObject, Txt_noJson, Txt_nested \o Txt_blank \o Txt_emptyObject}]

InitProbe ==
  /\ GeneratorAtRest
  /\ compilers \in [Range(CompilerNames) -> SpawnResults]
  /\ fsFailure \in {"none", "mkdtemp", "writeFile"}
  /\ tmpDirs = {}
  /\ probePc = "mkdtemp"
  /\ spawned = <<>>
  /\ probeResult = NoAst
  /\ output = <<>>
  /\ parsed = NoAst
  /\ implementationAst = NoAst
  /\ VfsAtRest
  /\ SdkAtRest

NextProbe ==
  \/ MakeTempDir
  \/ WriteProbeSource
  \/ SpawnCompiler
  \/ RemoveTempDir

SpecProbe == InitProbe /\ [][NextProbe]_vars

----------------------------------------------------------------------------
(* Properties of the overload dispatcher *)

\* the class RenderSdkApi produced
Rendered == sdkApiOut.kind = "JSBSimApi"

\* the groups rendered with a dispatcher: those with more than one overload
DispatchGroups ==
  IF Rendered THEN {g \in DOMAIN sdkApiOut.groups : Len(sdkApiOut.groups[g].overloads) > 1}
  ELSE {}

\* the minimum count an overload accepts: the place of its last parameter
\* without a default, all parameters after it being defaulted
MinAccepted(overload) ==
  LET required == {i \in DOMAIN overload.params : overload.params[i].defaultValue = NoDefault}
  IN IF required = {} THEN 0 ELSE CHOOSE i \in required : \A j \in required : j <= i

Accepts(overload, n) == MinAccepted(overload) <= n /\ n <= Len(overload.params)

\* the overloads of group g that accept n arguments
Acceptors(g, n) ==
  {o \in DOMAIN sdkApiOut.groups[g].overloads : Accepts(sdkApiOut.groups[g].overloads[o], n)}

\* the fill cases of group g's dispatcher for n arguments
FillCasesAt(g, n) ==
  {c \in DOMAIN sdkApiOut.members[g].body.fillCases :
     sdkApiOut.members[g].body.fillCases[c].providedArgCount = n}

\* the group of the written class that the last call went to
CalledGroup ==
  CHOOSE g \in DOMAIN sdkApiOut.members : sdkApiOut.members[g].camelName = lastCall.member

Called == lastCall.kind = "call"

\* C1: in a dispatcher, an argument count n accepted by more than one overload
\* of the group has no fill case, and a call with n arguments reaches the raw
\* method with exactly the n arguments given.
C1_AmbiguousCountForwardedUnchanged ==
  /\ \A g \in DispatchGroups : \A n \in 0..MaxArgs :
        Cardinality(Acceptors(g, n)) > 1 =>
          /\ FillCasesAt(g, n) = {}
          /\ RawArgsOfCall(sdkApiOut.members[g], CallArgs(n)) = CallArgs(n)
  /\ (Called /\ CalledGroup \in DispatchGroups
         /\ Cardinality(Acceptors(CalledGroup, Len(lastCall.args))) > 1)
       => lastCall.rawArgs = lastCall.args

\* a call with one argument that two overloads accept went through unchanged
C1_Witness ==
  /\ Called
  /\ CalledGroup \in DispatchGroups
  /\ Len(lastCall.args) = 1
  /\ Cardinality(Acceptors(CalledGroup, 1)) > 1
  /\ \E o \in Acceptors(CalledGroup, 1) : Len(sdkApiOut.groups[CalledGroup].overloads[o].params) > 1
  /\ lastCall.rawArgs = lastCall.args

\* the number of arguments the raw method receives for a call with n arguments
RawCountFor(g, n) == Len(RawArgsOfCall(sdkApiOut.members[g], CallArgs(n)))

\* the largest parameter count in group g
MaxParamCount(g) ==
  CHOOSE k \in {Len(sdkApiOut.groups[g].overloads[o].params) : o \in DOMAIN sdkApiOut.groups[g].overloads} :
    \A o \in DOMAIN sdkApiOut.groups[g].overloads : Len(sdkApiOut.groups[g].overloads[o].params) <= k

\* C2: in every group with more than one overload, every argument count from 0
\* to the largest parameter count has at most one fill case and reaches the raw
\* method with a count that is the exact arity of at most one overload (of one:
\* handled; of none: rejected), never of two.
C2_EveryCountUnambiguous ==
  \A g \in DispatchGroups : \A n \in 0..MaxParamCount(g) :
     /\ Cardinality(FillCasesAt(g, n)) <= 1
     /\ Cardinality({o \in DOMAIN sdkApiOut.groups[g].overloads :
                       Len(sdkApiOut.groups[g].overloads[o].params) = RawCountFor(g, n)}) <= 1

\* the default literals of overload's parameters after the first n, in order
RemainingDefaults(overload, n) ==
  [j \in 1..(Len(overload.params) - n) |-> overload.params[n + j].defaultValue]

SortedByCount(fillCases) ==
  \A c, d \in DOMAIN fillCases :
     c < d => fillCases[c].providedArgCount < fillCases[d].providedArgCount

Name_loadModel == <<"l","o","a","d","M","o","d","e","l">>

\* the class declares both LoadModel overloads in public
ScenarioB == Cardinality({m \in DOMAIN methods : methods[m].name = Id_LoadModel}) = 2

LoadModelGroups ==
  {g \in DOMAIN sdkApiOut.members : sdkApiOut.members[g].camelName = Name_loadModel}

\* C4: LoadModel(string, bool = true) and LoadModel(string, string, string,
\* string, bool = true) give one loadModel group with two signatures and the
\* fill cases 1 -> true and 4 -> true; loadModel("c172") reaches the raw
\* LoadModel as ("c172", true) and a four-argument call with true appended.
C4_LoadModelFillCases ==
  /\ (Rendered /\ ScenarioB) =>
        /\ Cardinality(LoadModelGroups) = 1
        /\ \A g \in LoadModelGroups :
              /\ sdkApiOut.members[g].sourceMethodName = Id_LoadModel
              /\ Len(sdkApiOut.members[g].signatures) = 2
              /\ sdkApiOut.members[g].body.fillCases =
                    <<[providedArgCount |-> 1, defaultValues |-> <<"true">>],
                      [providedArgCount |-> 4, defaultValues |-> <<"true">>]>>
              /\ \A o \in Acceptors(g, 4) :
                    Len(sdkApiOut.groups[g].overloads[o].params) = 5
              /\ Cardinality(Acceptors(g, 4)) = 1
              /\ RawArgsOfCall(sdkApiOut.members[g], <<"\"c172\"">>) = <<"\"c172\"", "true">>
              /\ RawArgsOfCall(sdkApiOut.members[g], CallArgs(4)) = CallArgs(4) \o <<"true">>
  /\ (ScenarioB /\ Called /\ lastCall.member = Name_loadModel /\ Len(lastCall.args) \in {1, 4})
       => /\ lastCall.rawName = Id_LoadModel
          /\ lastCall.rawArgs = lastCall.args \o <<"true">>

\* loadModel("c172") was called and LoadModel received ("c172", true)
C4_Witness ==
  /\ ScenarioB
  /\ Called
  /\ lastCall.member = Name_loadModel
  /\ lastCall.args = <<"\"c172\"">>
  /\ lastCall.rawName = Id_LoadModel
  /\ lastCall.rawArgs = <<"\"c172\"", "true">>

AllDefaulted(overload) ==
  \A i \in DOMAIN overload.params : overload.params[i].defaultValue # NoDefault

DefaultsOf(overload) == [i \in DOMAIN overload.params |-> overload.params[i].defaultValue]

AllGroups == IF Rendered THEN DOMAIN sdkApiOut.groups ELSE {}

\* C5 as stated: for every overload with all parameters defaulted, alone or in
\* a group, a call with zero arguments hands the raw method all its defaults.
C5_ZeroArgumentsGetAllDefaults ==
  \A g \in AllGroups : \A o \in DOMAIN sdkApiOut.groups[g].overloads :
     AllDefaulted(sdkApiOut.groups[g].overloads[o]) =>
       RawArgsOfCall(sdkApiOut.members[g], <<>>) = DefaultsOf(sdkApiOut.groups[g].overloads[o])

\* C5: for every overload with all parameters defaulted that is the only
\* overload of its group accepting zero arguments, a call with zero arguments
\* hands the raw method all its defaults.
C5_ZeroArgumentsGetAllDefaultsOfOnlyAcceptor ==
  /\ \A g \in AllGroups : \A o \in DOMAIN sdkApiOut.groups[g].overloads :
        (AllDefaulted(sdkApiOut.groups[g].overloads[o]) /\ Acceptors(g, 0) = {o}) =>
          RawArgsOfCall(sdkApiOut.members[g], <<>>) = DefaultsOf(sdkApiOut.groups[g].overloads[o])
  /\ (Called /\ lastCall.args = <<>>) =>
        \A o \in DOMAIN sdkApiOut.groups[CalledGroup].overloads :
          (AllDefaulted(sdkApiOut.groups[CalledGroup].overloads[o])
             /\ Acceptors(CalledGroup, 0) = {o}) =>
            lastCall.rawArgs = DefaultsOf(sdkApiOut.groups[CalledGroup].overloads[o])

\* a zero-argument call on a group of two overloads handed on two defaults
C5_Witness ==
  /\ Called
  /\ lastCall.args = <<>>
  /\ CalledGroup \in DispatchGroups
  /\ Len(lastCall.rawArgs) = 2
  /\ \E o \in DOMAIN sdkApiOut.groups[CalledGroup].overloads :
        /\ AllDefaulted(sdkApiOut.groups[CalledGroup].overloads[o])
        /\ lastCall.rawArgs = DefaultsOf(sdkApiOut.groups[CalledGroup].overloads[o])

----------------------------------------------------------------------------
(* Properties of a generation run *)

NotIgnored(m) == methods[m].name \notin DEFAULT_JSBSIM_API_IGNORE_METHODS

\* two methods outside the ignore list differ in name and agree in camel name
CollisionDeclared ==
  \E i, j \in DOMAIN methods :
     /\ NotIgnored(i) /\ NotIgnored(j)
     /\ methods[i].name # methods[j].name
     /\ toCamelCaseName(methods[i].name) = toCamelCaseName(methods[j].name)

\* the run is past the rendering of the class api
PastRenderSdkApi == pc \in {"writeCpp", "writeTs", "writeSdkApi", "done"}

\* C6: every group holds methods of one original name only; where two methods
\* outside the ignore list differ in name and convert to one camel name the
\* run throws, in any order of declaration, and renders nothing; overloads of
\* one name are merged into one group and the run does not throw for them.
C6_CollisionThrowsOverloadsMerge ==
  /\ \A g \in AllGroups : \A o \in DOMAIN sdkApiOut.groups[g].overloads :
        methods[sdkApiOut.groups[g].overloads[o].method].name
          = sdkApiOut.groups[g].sourceMethodName
  /\ \A g, h \in AllGroups :
        sdkApiOut.groups[g].sourceMethodName = sdkApiOut.groups[h].sourceMethodName => g = h
  /\ err = "namingCollision" => (CollisionDeclared /\ ~Rendered)
  /\ CollisionDeclared => ~PastRenderSdkApi /\ ~Rendered
  /\ (pc = "failed" /\ CollisionDeclared) => err = "namingCollision"
  /\ (PastRenderSdkApi /\ ~CollisionDeclared) =>
        /\ Rendered
        /\ \A m \in DOMAIN methods : NotIgnored(m) =>
              \E g \in AllGroups :
                 /\ sdkApiOut.groups[g].sourceMethodName = methods[m].name
                 /\ \E o \in DOMAIN sdkApiOut.groups[g].overloads :
                       sdkApiOut.groups[g].overloads[o].method = m

\* foo() declared before Foo(): the run failed on the collision
C6_Witness ==
  /\ pc = "failed"
  /\ err = "namingCollision"
  /\ Len(methods) = 2
  /\ methods[1].name = Id_foo
  /\ methods[2].name = Id_Foo

FatalErrors == {"missingHeader", "noAst", "classNotFound", "namingCollision"}

\* C7: a run that failed on a missing header, a missing AST, a missing class
\* definition or a naming collision left all three output files as they were,
\* and a file is written only when all three artifacts are rendered.
C7_FatalErrorWritesNothing ==
  /\ (pc = "failed" /\ err \in FatalErrors) => files = filesBefore
  /\ (files # filesBefore) =>
        (cppOut # NoOutput /\ tsOut # NoOutput /\ sdkApiOut # NoOutput /\ Rendered)

\* a collision after the two raw artifacts were rendered, stale files untouched
C7_Witness ==
  /\ pc = "failed"
  /\ err = "namingCollision"
  /\ cppOut # NoOutput
  /\ tsOut # NoOutput
  /\ \A p \in OutputPaths : filesBefore[p] = Stale /\ files[p] = Stale

\* the places of method m among the overloads of the groups
GroupPlacesOf(m) ==
  {place \in AllGroups \X DOMAIN methods :
     /\ place[2] \in DOMAIN sdkApiOut.groups[place[1]].overloads
     /\ sdkApiOut.groups[place[1]].overloads[place[2]].method = m}

\* C8: each extracted method has one signature in the raw interface and one
\* registered native wrapper of its own, is an overload of exactly one group
\* when its name is off the ignore list, and of none when it is on it.
C8_EveryMethodOnceInEachOutput ==
  /\ tsOut # NoOutput =>
        /\ Len(tsOut.signatures) = Len(methods)
        /\ \A m \in DOMAIN methods :
              /\ tsOut.signatures[m].name = methods[m].name
              /\ Len(tsOut.signatures[m].params) = Len(methods[m].params)
  /\ cppOut # NoOutput =>
        /\ Len(cppOut.bindings) = Len(methods)
        /\ Len(cppOut.wrappers) = Len(methods)
        /\ \A m \in DOMAIN methods :
              /\ cppOut.bindings[m].name = methods[m].name
              /\ cppOut.bindings[m].wrapper = cppOut.wrappers[m].wrapperName
              /\ cppOut.wrappers[m].invokes = methods[m].name
              /\ Len(cppOut.wrappers[m].params) = Len(methods[m].params)
        /\ \A m, k \in DOMAIN methods :
              cppOut.wrappers[m].wrapperName = cppOut.wrappers[k].wrapperName => m = k
  /\ Rendered =>
        \A m \in DOMAIN methods :
           Cardinality(GroupPlacesOf(m)) = IF NotIgnored(m) THEN 1 ELSE 0

\* a rendered class for an ignored method and one that is not
C8_Witness ==
  /\ Rendered
  /\ Len(methods) = 2
  /\ \E m \in DOMAIN methods : ~NotIgnored(m)
  /\ Len(sdkApiOut.groups) = 1
  /\ Len(tsOut.signatures) = 2

Name_run == <<"r","u","n">>
Name_runIC == <<"r","u","n","I","C">>
Name_runIc == <<"r","u","n","I","c">>

\* the class has the public methods void Run() and bool RunIC() and no other
ScenarioA ==
  /\ Len(methods) = 2
  /\ \E i, j \in DOMAIN methods :
        /\ methods[i] = [name |-> Id_Run, returnType |-> T_void, params |-> <<>>]
        /\ methods[j] = [name |-> Id_RunIC, returnType |-> T_bool, params |-> <<>>]

RawSignatures == {tsOut.signatures[m] : m \in DOMAIN tsOut.signatures}

\* the members of the class api as name, raw method, forwarded arguments
ForwardingMembers ==
  {[camelName |-> sdkApiOut.members[g].camelName,
    rawName |-> sdkApiOut.members[g].sourceMethodName,
    kind |-> sdkApiOut.members[g].body.kind,
    rawArgs |-> RawArgsOfCall(sdkApiOut.members[g], <<>>)] : g \in AllGroups}

Name_setMode == <<"s","e","t","M","o","d","e">>
Name_FGFDMExecMode == CLASS_NAME \o <<"M","o","d","e">>

\* member i of the class definition stands in a public region
InPublicRegion(i) ==
  \E a \in 1..(i - 1) :
     /\ classNode[a] = AccessSpec("public")
     /\ \A b \in (a + 1)..(i - 1) : classNode[b].kind # "AccessSpecDecl"

\* enum eMode { tA, tB, tC } and void SetMode(eMode), both declared in public
ScenarioC ==
  \E i, j \in DOMAIN classNode :
     /\ classNode[i] = Decl_eMode /\ InPublicRegion(i)
     /\ classNode[j] = Decl_SetMode /\ InPublicRegion(j)

MetadataBuilt == typeMetadata # NoTypeMetadata

SetModeKey == createMethodKey(Id_SetMode, <<T_eMode>>)

\* the definition of eMode with the members tA = 0, tB = 1, tC = 2
HasModeDefinition ==
  \E d \in DOMAIN typeMetadata.enumDefs :
     /\ typeMetadata.enumDefs[d].cppSimpleName = Id_eMode
     /\ typeMetadata.enumDefs[d].tsName = Name_FGFDMExecMode
     /\ typeMetadata.enumDefs[d].members =
           <<[name |-> Id_tA, value |-> 0], [name |-> Id_tB, value |-> 1],
             [name |-> Id_tC, value |-> 2]>>

\* the parameter types of setMode in the class api
SetModeParamTypes ==
  {[i \in DOMAIN sdkApiOut.members[g].signatures[1].params |->
      sdkApiOut.members[g].signatures[1].params[i].typeName] :
     g \in {h \in AllGroups : sdkApiOut.members[h].camelName = Name_setMode}}

----------------------------------------------------------------------------
(* Properties of the native wrapper layer *)

\* the wrapper parameter type the narrowing rule gives a declared type
NarrowedType(type) ==
  IF type.path = <<Id_bool>> THEN T_bool
  ELSE IF type.path \in NUMERIC_TYPES THEN CType(FALSE, type.path, "")
  ELSE IF type.path \in {<<Id_std, Id_string>>, <<Id_SGPath>>} THEN T_constStringRef
  ELSE T_uintptr

\* the places of parameters: method m, parameter i
ParamPlaces ==
  UNION {{<<m, i>> : i \in DOMAIN methods[m].params} : m \in DOMAIN methods}

\* C11: a wrapper parameter is bool for a boolean type, the bare numeric type
\* for a numeric one, const std::string& for std::string and SGPath, uintptr_t
\* otherwise; only uintptr_t parameters go through reinterpret_cast; a const
\* std::string& parameter without default is passed on as it is and is a
\* required string parameter of the raw interface and of the class api.
C11_WrapperParameterNarrowing ==
  /\ cppOut # NoOutput =>
        \A place \in ParamPlaces :
           LET type == methods[place[1]].params[place[2]].type
               wrapper == cppOut.wrappers[place[1]]
           IN /\ wrapper.params[place[2]].cppType = NarrowedType(type)
              /\ wrapper.convertedArgs[place[2]].kind = "reinterpret_cast"
                   => wrapper.params[place[2]].cppType = T_uintptr
              /\ (type = T_constStringRef) =>
                   /\ wrapper.params[place[2]].cppType = T_constStringRef
                   /\ wrapper.convertedArgs[place[2]] = [kind |-> "pass"]
  /\ tsOut # NoOutput =>
        \A place \in ParamPlaces :
           methods[place[1]].params[place[2]].type = T_constStringRef =>
             tsOut.signatures[place[1]].params[place[2]].typeName = TsBuiltin("string")
  /\ Rendered =>
        \A g \in AllGroups : \A o \in DOMAIN sdkApiOut.groups[g].overloads :
           \A i \in DOMAIN sdkApiOut.groups[g].overloads[o].params :
              LET method == methods[sdkApiOut.groups[g].overloads[o].method]
                  rendered == sdkApiOut.members[g].signatures[o].params[i]
              IN (method.params[i].type = T_constStringRef
                    /\ method.params[i].defaultValue = NoDefault) =>
                   /\ rendered.typeName = TsBuiltin("string")
                   /\ ~rendered.optional
                   /\ rendered.initializer = NoDefault

\* a rendered class for Foo(const std::string&, <handle>): the first parameter
\* passed on, the second through reinterpret_cast
C11_Witness ==
  /\ Rendered
  /\ Len(methods) = 1
  /\ Len(methods[1].params) = 2
  /\ methods[1].params[1].type = T_constStringRef
  /\ cppOut.wrappers[1].convertedArgs[1] = [kind |-> "pass"]
  /\ cppOut.wrappers[1].params[2].cppType = T_uintptr
  /\ cppOut.wrappers[1].convertedArgs[2].kind = "reinterpret_cast"
  /\ sdkApiOut.members[1].signatures[1].params[1].typeName = TsBuiltin("string")

----------------------------------------------------------------------------
(* Properties of type-metadata resolution *)

\* C12: after type-metadata resolution no two enum definitions of the result
\* share a target-facing name or a qualified C++ name, whatever their source
\* (declared in the class or resolved from a header).
C12_EnumDefinitionsPairwiseDistinct ==
  MetadataBuilt =>
    \A i, j \in DOMAIN typeMetadata.enumDefs :
       i # j => /\ typeMetadata.enumDefs[i].tsName # typeMetadata.enumDefs[j].tsName
                /\ typeMetadata.enumDefs[i].cppQualifiedName
                     # typeMetadata.enumDefs[j].cppQualifiedName

\* the one enum candidate of the class: the type of the parameter of Foo
Candidate == methods[Len(methods)].params[1].type

CandidateSimpleName == Candidate.path[Len(Candidate.path)]

\* the spellings in the order of the claim
ClaimedSpellings ==
  <<Candidate, CType(FALSE, <<CandidateSimpleName>>, ""),
    CType(FALSE, <<NS_JSBSim, CandidateSimpleName>>, "")>>

SpellingRank(spelling) ==
  CHOOSE i \in DOMAIN ClaimedSpellings :
     /\ ClaimedSpellings[i] = spelling
     /\ \A k \in 1..(i - 1) : ClaimedSpellings[k] # spelling

\* the spellings probed: the prefixed one only for an unqualified candidate
ProbedSpellings ==
  IF Len(Candidate.path) = 1 THEN Range(ClaimedSpellings)
  ELSE {ClaimedSpellings[1], ClaimedSpellings[2]}

MentioningHeaders == {h \in DOMAIN tree : CandidateSimpleName \in tree[h].tokens}

Combination(h, spelling) == [header |-> h, probeType |-> spelling]

\* the combination compiles and its tree declares the enum with a member
Succeeds(probe) ==
  /\ tree[probe.header].compiles = probe.probeType
  /\ \E k \in DOMAIN tree[probe.header].ast.inner :
        /\ tree[probe.header].ast.inner[k].kind = "EnumDecl"
        /\ tree[probe.header].ast.inner[k].name = CandidateSimpleName
        /\ tree[probe.header].ast.inner[k].inner # <<>>

\* p comes before q: a shorter path, or an earlier spelling of one header
ProbedBefore(p, q) ==
  \/ tree[p.header].pathLength < tree[q.header].pathLength
  \/ p.header = q.header /\ SpellingRank(p.probeType) < SpellingRank(q.probeType)

LastProbe == probes[Len(probes)]

ProbeResolved == probes # <<>> /\ Succeeds(LastProbe)

\* what the claim says of a run over the combinations of some spellings
ProbesFirstSuccessWins(spellings) ==
  MetadataBuilt =>
    LET combinations == {Combination(h, sp) : h \in MentioningHeaders, sp \in spellings}
    IN /\ Range(probes) \subseteq combinations
       /\ \A i, j \in DOMAIN probes :
            i < j => probes[i] # probes[j] /\ ~ProbedBefore(probes[j], probes[i])
       /\ \A i \in 1..(Len(probes) - 1) : ~Succeeds(probes[i])
       /\ err \in {"none", "writeFailed"}
       /\ ProbeResolved =>
            /\ \A q \in combinations :
                  /\ Succeeds(q) => ~ProbedBefore(q, LastProbe)
                  /\ ProbedBefore(q, LastProbe) => q \in Range(probes)
            /\ Candidate \notin typeMetadata.unresolvedEnumTypes
            /\ \E k \in DOMAIN typeMetadata.enumDefs :
                  /\ typeMetadata.enumDefs[k].tsName = CandidateSimpleName
                  /\ typeMetadata.enumDefs[k].members
                       = <<[name |-> Id_tA, value |-> LastProbe.header]>>
            /\ Rendered =>
                 sdkApiOut.members[1].signatures[1].params[1].typeName
                   = TsRef(CandidateSimpleName)
       /\ ~ProbeResolved =>
            /\ Range(probes) = combinations
            /\ Candidate \in typeMetadata.unresolvedEnumTypes
            /\ \A k \in DOMAIN typeMetadata.enumDefs :
                  typeMetadata.enumDefs[k].tsName # CandidateSimpleName
            /\ tsOut # NoOutput =>
                 tsOut.signatures[1].params[1].typeName = TsBuiltin("number")
            /\ Rendered =>
                 sdkApiOut.members[1].signatures[1].params[1].typeName = TsBuiltin("number")

\* C13 as stated: the headers are probed by ascending path length and each
\* with the candidate name, its simple name, then the JSBSim::-prefixed simple
\* name; the first combination that yields an enum with a member gives the
\* definition and ends the probing, a failing one is skipped, and when all
\* fail the type is unresolved, rendered as number, and the run goes on.
C13_ProbesThreeSpellingsFirstSuccessWins ==
  ProbesFirstSuccessWins(Range(ClaimedSpellings))

\* C13, amended: the same, the JSBSim::-prefixed simple name being probed
\* only when the candidate name is unqualified.
C13_ProbesSpellingsFirstSuccessWins == ProbesFirstSuccessWins(ProbedSpellings)

\* a finished run that skipped the combinations of a first header and took
\* the enum of a second one
C13_Witness ==
  /\ pc = "done"
  /\ ProbeResolved
  /\ Len(probes) >= 3
  /\ probes[1].header # LastProbe.header
  /\ tree[probes[1].header].compiles = probes[1].probeType

\* a finished run of which every combination failed
C13_WitnessUnresolved ==
  /\ pc = "done"
  /\ ~ProbeResolved
  /\ Len(probes) >= 4
  /\ Candidate \in typeMetadata.unresolvedEnumTypes

----------------------------------------------------------------------------
(* Properties of AST acquisition *)

\* where the splitting stands after the first n characters: the depth of
\* open braces, inside a string literal, right after a backslash
RECURSIVE SplitMode(_, _)
SplitMode(text, n) ==
  IF n = 0 THEN [depth |-> 0, inString |-> FALSE, escaped |-> FALSE]
  ELSE LET before == SplitMode(text, n - 1)
           ch == text[n]
       IN IF before.depth = 0
            THEN IF ch = "{" THEN [before EXCEPT !.depth = 1] ELSE before
          ELSE IF before.inString /\ before.escaped THEN [before EXCEPT !.escaped = FALSE]
          ELSE IF before.inString /\ ch = "\\" THEN [before EXCEPT !.escaped = TRUE]
          ELSE IF ch = "\"" THEN [before EXCEPT !.inString = ~@]
          ELSE IF before.inString THEN before
          ELSE IF ch = "{" THEN [before EXCEPT !.depth = @ + 1]
          ELSE IF ch = "}" THEN [before EXCEPT !.depth = @ - 1]
          ELSE before

\* the places where a top-level object opens and where it closes
ObjectOpens(text) ==
  {n \in DOMAIN text : SplitMode(text, n - 1).depth = 0 /\ SplitMode(text, n).depth = 1}
ObjectCloses(text) ==
  {n \in DOMAIN text : SplitMode(text, n - 1).depth = 1 /\ SplitMode(text, n).depth = 0}

\* the top-level objects of a text, in order
RECURSIVE TopLevelObjectsFrom(_, _)
TopLevelObjectsFrom(text, from) ==
  LET closes == {n \in ObjectCloses(text) : n >= from}
  IN IF closes = {} THEN <<>>
     ELSE LET close == CHOOSE n \in closes : \A k \in closes : n <= k
              open == CHOOSE n \in ObjectOpens(text) :
                        /\ n < close
                        /\ \A k \in ObjectOpens(text) : k < close => k <= n
          IN <<SubSeq(text, open, close)>> \o TopLevelObjectsFrom(text, close + 1)

TopLevelObjects(text) == TopLevelObjectsFrom(text, 1)

\* C17: parseClangJsonOutput first parses the whole trimmed output; when that
\* fails it splits the text into its top-level {...} objects by brace depth,
\* braces and quotes inside string literals and after backslashes not
\* counting, and parses each: one object is returned as itself, several as a
\* ClangAstDocumentSet in order; an empty output, no object, or an object that
\* does not parse gives null.
C17_WholeOutputThenTopLevelObjects ==
  probePc = "parsed" =>
    LET Objects(chunks) ==
          IF chunks = <<>> \/ \E i \in DOMAIN chunks : ~JSONparse(chunks[i]).ok
            THEN parsed = NoAst
          ELSE IF Len(chunks) = 1 THEN parsed = JSONparse(chunks[1]).value
          ELSE parsed = ClangAstDocumentSet([i \in DOMAIN chunks |-> JSONparse(chunks[i]).value])
    IN IF Trim(output) = <<>> THEN parsed = NoAst
       ELSE IF JSONparse(Trim(output)).ok THEN parsed = JSONparse(Trim(output)).value
       ELSE Objects(TopLevelObjects(Trim(output)))

\* two objects, with a brace inside a string and a quote after a backslash,
\* returned as a document set
C17_Witness ==
  /\ probePc = "parsed"
  /\ output = Txt_braceInString \o Txt_blank \o Txt_escapedQuote
  /\ parsed = ClangAstDocumentSet(
                <<JsonObject(<<[key |-> <<"a">>, value |-> JsonString(<<"}", "{">>)]>>),
                  JsonObject(<<[key |-> <<"a">>, value |-> JsonString(<<"\"", "}">>)]>>)>>)

\* the compiler spawns without error, exits with 0 and its output parses
Usable(compiler) ==
  /\ ~compilers[compiler].error
  /\ compilers[compiler].status = 0
  /\ parseClangJsonOutput(compilers[compiler].stdout) # NoAst

PastCompilers == probePc \in {"finally", "returned"}

\* C14: the compilers are tried in the order clang++, clang; the parsed
\* output of the first that spawns without error, exits with 0 and gives an
\* output that parses is returned and no later one is tried; one that fails
\* is skipped; when all fail the result is null and nothing is thrown.
C14_FirstUsableCompilerOrNull ==
  /\ PastCompilers =>
       IF Usable("clang++")
         THEN /\ spawned = <<"clang++">>
              /\ probeResult = parseClangJsonOutput(compilers["clang++"].stdout)
       ELSE IF Usable("clang")
         THEN /\ spawned = <<"clang++", "clang">>
              /\ probeResult = parseClangJsonOutput(compilers["clang"].stdout)
       ELSE /\ spawned = <<"clang++", "clang">>
            /\ probeResult = NoAst
  /\ probePc = "thrown" => fsFailure # "none" /\ spawned = <<>>

\* clang++ exits with 1, clang gives two documents
C14_Witness ==
  /\ probePc = "returned"
  /\ spawned = <<"clang++", "clang">>
  /\ ~compilers["clang++"].error
  /\ compilers["clang++"].status = 1
  /\ probeResult.kind = "ClangAstDocumentSet"

\* C15: once runClangAstDumpFromSource has returned or thrown, no temporary
\* directory is left, whether a compiler succeeded, all failed, the output
\* did not parse, or the probe source could not be written.
C15_NoTempDirLeftBehind ==
  probePc \in {"returned", "thrown"} => tmpDirs = {}

----------------------------------------------------------------------------
(* Properties of repeated runs *)

----------------------------------------------------------------------------
(* Properties of class and method extraction *)

\* extractPublicMethodsFromClass has just returned
JustExtracted == pc = "buildTypeMetadata"

\* the access of the last access marker before member i, private without one
AccessBefore(i) ==
  LET markers == {j \in 1..(i - 1) : classNode[j].kind = "AccessSpecDecl"}
  IN IF markers = {} THEN "private"
     ELSE classNode[CHOOSE j \in markers : \A k \in markers : k <= j].access

IsExtractedMember(i) ==
  /\ classNode[i].kind = "CXXMethodDecl"
  /\ ~classNode[i].isImplicit
  /\ classNode[i].name \notin {CLASS_NAME, <<"~">> \o CLASS_NAME}
  /\ classNode[i].type.hasParen
  /\ classNode[i].type.ret # NoType
  /\ AccessBefore(i) = "public"

ExtractedMembers == SelectSeq([i \in DOMAIN classNode |-> i], IsExtractedMember)

\* C18: the methods returned are, in the order of declaration, exactly the
\* members that are method declarations, not implicit, neither constructor
\* nor destructor, with a return type, and after a last access marker that is
\* public; members before the first marker are private; a method without a
\* return type is left out and no error is raised.
C18_ExactlyThePublicMethodsInOrder ==
  JustExtracted =>
    /\ Len(methods) = Len(ExtractedMembers)
    /\ \A k \in DOMAIN methods :
         /\ methods[k].name = classNode[ExtractedMembers[k]].name
         /\ methods[k].returnType = classNode[ExtractedMembers[k]].type.ret
    /\ err = "none"

\* a method without return type and then Run, both after public: only Run
\* is returned
C18_Witness ==
  /\ JustExtracted
  /\ classNode = <<AccessSpec("public"), Decl_noReturnType, Decl_Run>>
  /\ Len(methods) = 1
  /\ methods[1].name = Id_Run
  /\ err = "none"

\* the parameter declarations of the one method of the class
DeclaredParams == SelectSeq(classNode[Len(classNode)].inner, LAMBDA n : n.kind = "ParmVarDecl")

\* the name a parameter starts from: its own when it is an identifier, else argN
BaseName(i) ==
  IF IsIdentifier(DeclaredParams[i].name) THEN DeclaredParams[i].name
  ELSE <<"a","r","g">> \o NatToChars(i - 1)

Suffixed(name, suffix) == name \o <<"_">> \o NatToChars(suffix)

OneMethodOfFoo ==
  /\ JustExtracted
  /\ Len(methods) = 1
  /\ classNode[Len(classNode)].kind = "CXXMethodDecl"
  /\ classNode[Len(classNode)].name = Id_Foo

\* C19: the parameters of an extracted method keep their count and order and
\* have pairwise distinct names that are identifiers; a parameter without a
\* usable name is called argN after its place N; a name used earlier in the
\* list gets the first numeric suffix that gives a name not used before it,
\* also when a declared name is one that was made up for another parameter.
C19_ParameterNamesDistinct ==
  OneMethodOfFoo =>
    LET params == methods[1].params
    IN /\ Len(params) = Len(DeclaredParams)
       /\ \A i \in DOMAIN params :
            /\ params[i].type = DeclaredParams[i].type
            /\ IsIdentifier(params[i].name)
            /\ \A j \in DOMAIN params : i # j => params[i].name # params[j].name
            /\ LET earlier == {params[j].name : j \in 1..(i - 1)}
               IN IF BaseName(i) \notin earlier THEN params[i].name = BaseName(i)
                  ELSE \E suffix \in 1..Len(params) :
                         /\ params[i].name = Suffixed(BaseName(i), suffix)
                         /\ \A smaller \in 1..(suffix - 1) :
                              Suffixed(BaseName(i), smaller) \in earlier

\* Foo(int x, int x_1, int x): the third parameter becomes x_2
C19_Witness ==
  /\ OneMethodOfFoo
  /\ Len(DeclaredParams) = 3
  /\ DeclaredParams[1].name = Id_x
  /\ DeclaredParams[2].name = Id_x_1
  /\ DeclaredParams[3].name = Id_x
  /\ methods[1].params[3].name = <<"x", "_", "2">>

\* Foo(int, int arg0): the second parameter becomes arg0_1
C19_WitnessSynthesized ==
  /\ OneMethodOfFoo
  /\ Len(DeclaredParams) = 2
  /\ DeclaredParams[1].name = <<>>
  /\ DeclaredParams[2].name = Id_arg0
  /\ methods[1].params[1].name = Id_arg0
  /\ methods[1].params[2].name = <<"a", "r", "g", "0", "_", "1">>

\* the initializer, below its wrapper layers, is a literal of the kinds of
\* the claim; a string literal may have been converted to the type of the
\* parameter by the constructor the compiler inserts
IsLiteralInitializer(expr, paramType) ==
  LET unwrapped == unwrapExprNode(expr)
  IN \/ unwrapped.kind \in {"CXXBoolLiteralExpr", "IntegerLiteral", "FloatingLiteral",
                            "StringLiteral"}
     \/ /\ unwrapped.kind = "UnaryOperator"
        /\ unwrapped.opcode \in {"-", "+"}
        /\ unwrapExprNode(unwrapped.inner[1]).kind \in {"IntegerLiteral", "FloatingLiteral"}
     \/ /\ unwrapped.kind = "CXXConstructExpr"
        /\ Len(unwrapped.inner) = 1
        /\ unwrapExprNode(unwrapped.inner[1]).kind = "StringLiteral"
     \/ /\ unwrapped.kind \in {"CXXConstructExpr", "CXXTemporaryObjectExpr"}
        /\ unwrapped.inner = <<>>
        /\ paramType \in {T_constStringRef, T_constSGPathRef}

\* C20: a default value is recorded only when the initializer, below its
\* wrapper layers, is a boolean literal, an integer or floating literal with
\* or without a unary sign, a string literal, or a default-constructed
\* temporary of a string or path parameter; any other initializer, a function
\* call or a named constant for one, gives no default.
C20_DefaultOnlyFromLiteral ==
  (OneMethodOfFoo /\ Len(DeclaredParams) = 1 /\ DeclaredParams[1].hasInit) =>
    (methods[1].params[1].defaultValue # NoDefault
       => IsLiteralInitializer(DeclaredParams[1].inner[1], DeclaredParams[1].type))

\* the enum declarations of the class that lie in its public region
PublicEnumDecls ==
  SelectSeq([i \in DOMAIN classNode |-> i],
            LAMBDA i : classNode[i].kind = "EnumDecl" /\ AccessBefore(i) = "public"
                       /\ classNode[i].inner # <<>>)

HasInitializer(enumerator) == enumerator.inner # <<>>

\* the value the language gives enumerator i of a list of enumerators
RECURSIVE EnumeratorValue(_, _)
EnumeratorValue(enumerators, i) ==
  IF HasInitializer(enumerators[i]) THEN ParseInt(enumerators[i].inner[1].value)
  ELSE IF i = 1 THEN 0
  ELSE EnumeratorValue(enumerators, i - 1) + 1

\* C21: the members of an enum definition are the enumerators in the order
\* of declaration, each with its explicit value when it has one and else with
\* the value of the enumerator before it plus one, 0 for the first.
C21_EnumeratorsNumberedAsDeclared ==
  MetadataBuilt =>
    /\ Len(typeMetadata.enumDefs) >= Len(PublicEnumDecls)
    /\ \A k \in DOMAIN PublicEnumDecls :
         LET enumerators == classNode[PublicEnumDecls[k]].inner
             members == typeMetadata.enumDefs[k].members
         IN /\ Len(members) = Len(enumerators)
            /\ \A i \in DOMAIN members :
                 /\ members[i].name = enumerators[i].name
                 /\ members[i].value = EnumeratorValue(enumerators, i)

\* enum eMode { tA, tB = 5, tC } yields 0, 5, 6
C21_Witness ==
  /\ MetadataBuilt
  /\ classNode = <<AccessSpec("public"),
                   EnumDecl(Id_eMode, <<EnumConstant(Id_tA), EnumConstantWithValue(Id_tB, 5),
                                        EnumConstant(Id_tC)>>)>>
  /\ typeMetadata.enumDefs[1].members =
       <<[name |-> Id_tA, value |-> 0], [name |-> Id_tB, value |-> 5],
         [name |-> Id_tC, value |-> 6]>>

\* member i of the class is a static constant of type int or unsigned int
IsFlagConstant(i) ==
  /\ classNode[i].kind = "VarDecl"
  /\ classNode[i].storageClass = "static"
  /\ classNode[i].type \in {T_int, T_unsigned_int}

\* members j..i are one unbroken run of such constants in the public region:
\* nothing but such constants and repeated public markers lies between them
UnbrokenRun(j, i) ==
  /\ j <= i
  /\ IsFlagConstant(j)
  /\ AccessBefore(j) = "public"
  /\ \A k \in j..i :
       \/ IsFlagConstant(k)
       \/ classNode[k].kind = "AccessSpecDecl" /\ classNode[k].access = "public"

\* C22: a constant is in the flag group of method M only if it is a static
\* int or unsigned int constant of the public region and it, or an earlier
\* constant of the same unbroken run, carries the comment "Mode flags for M";
\* every other declaration between them and every move out of the public
\* region ends the run; every flag group has at least one member.
C22_FlagsOnlyFromUnbrokenCommentedRun ==
  MetadataBuilt =>
    \A f \in DOMAIN typeMetadata.flagDefs :
      /\ Len(typeMetadata.flagDefs[f].members) >= 1
      /\ \A m \in DOMAIN typeMetadata.flagDefs[f].members :
           \E i \in DOMAIN classNode :
             /\ IsFlagConstant(i)
             /\ classNode[i].name = typeMetadata.flagDefs[f].members[m].name
             /\ AccessBefore(i) = "public"
             /\ \E j \in 1..i :
                  /\ UnbrokenRun(j, i)
                  /\ classNode[j].modeFlagsFor = typeMetadata.flagDefs[f].methodName

\* the definitions of the implementation file, in the order of the file
Definitions == IF implementationAst = NoAst THEN <<>> ELSE implementationAst.inner

\* the casts in the body of a definition as <<parameter index, type>>, the
\* index counted from 0
CastsOf(definition) ==
  LET statements == definition.inner[Len(definition.inner)].inner
      declared == SelectSeq(definition.inner, LAMBDA node : node.kind = "ParmVarDecl")
  IN [i \in DOMAIN statements |->
        <<(CHOOSE n \in DOMAIN declared :
             declared[n].id = statements[i].inner[1].inner[1].referencedDecl.id) - 1,
          statements[i].type>>]

DefinedTypes(definition) ==
  LET declared == SelectSeq(definition.inner, LAMBDA node : node.kind = "ParmVarDecl")
  IN [i \in DOMAIN declared |-> declared[i].type]

MethodTypes(method) == [i \in DOMAIN method.params |-> method.params[i].type]

\* the casts of the definitions with the name and the parameter types of a
\* method, and of those with its name and its number of parameters
CastsUnderSignature(method) ==
  Concat([i \in DOMAIN Definitions |->
            IF Definitions[i].name = method.name /\ DefinedTypes(Definitions[i]) = MethodTypes(method)
              THEN CastsOf(Definitions[i]) ELSE <<>>])

CastsUnderArity(method) ==
  Concat([i \in DOMAIN Definitions |->
            IF /\ Definitions[i].name = method.name
               /\ Len(DefinedTypes(Definitions[i])) = Len(method.params)
              THEN CastsOf(Definitions[i]) ELSE <<>>])

\* the entry consulted for a method, and the type it holds for an index
CastSiteEntry(method) ==
  IF CastsUnderSignature(method) # <<>> THEN CastsUnderSignature(method)
  ELSE CastsUnderArity(method)

HasCastFor(method, index) == \E i \in DOMAIN CastSiteEntry(method) : CastSiteEntry(method)[i][1] = index

CastFor(method, index) ==
  LET entry == CastSiteEntry(method)
  IN entry[CHOOSE i \in DOMAIN entry :
             entry[i][1] = index /\ \A j \in 1..(i - 1) : entry[j][1] # index][2]

Ts_FGFDMExecMode == CLASS_NAME \o Id_Mode

ResolvedCastFor(method, index) ==
  HasCastFor(method, index) /\ resolveEnumInfo(CastFor(method, index), typeMetadata.enumLookup) # NoEnum

ParamOverride(method, index) ==
  IF methodKey(method) \in DOMAIN typeMetadata.paramTypeOverrides
     /\ index \in DOMAIN typeMetadata.paramTypeOverrides[methodKey(method)]
    THEN typeMetadata.paramTypeOverrides[methodKey(method)][index]
    ELSE <<>>

FlagsDeclaredFor(name) ==
  \E i \in DOMAIN classNode : classNode[i].kind = "VarDecl" /\ classNode[i].modeFlagsFor = name

\* C23: the cast-site entry under the signature key of a method is the one
\* used when it exists, the entry under name and arity only when there is
\* none; an override that a parameter index has is replaced by no later rule,
\* and a return type override is not overwritten.
C23_FirstOverrideOfAnIndexStays ==
  MetadataBuilt =>
    \A k \in DOMAIN methods :
      LET method == methods[k]
      IN /\ \A index \in 0..(Len(method.params) - 1) :
              /\ ResolvedCastFor(method, index) =>
                   ParamOverride(method, index) =
                     resolveEnumInfo(CastFor(method, index), typeMetadata.enumLookup).tsName
              /\ (/\ CastsUnderSignature(method) # <<>>
                  /\ ~ResolvedCastFor(method, index)
                  /\ method.name = Id_Foo
                  /\ ~FlagsDeclaredFor(Id_Foo)) =>
                   ParamOverride(method, index) = <<>>
         /\ (/\ ~ResolvedCastFor(method, 0)
             /\ method.name = Id_SetMode
             /\ Len(method.params) = 1
             /\ isNumericType(method.params[1].type)) =>
              ParamOverride(method, 0) = Ts_FGFDMExecMode
         /\ (method.name = Id_GetMode /\ method.params = <<>> /\ isNumericType(method.returnType)) =>
              /\ methodKey(method) \in DOMAIN typeMetadata.returnTypeOverrides
              /\ typeMetadata.returnTypeOverrides[methodKey(method)] = Ts_FGFDMExecMode

\* Foo(int) has flag constants and its definition casts the parameter to
\* Mode: the override is the enum, not the flag group
C23_Witness ==
  /\ MetadataBuilt
  /\ classNode = <<AccessSpec("public"), Decl_Mode, Flag_forFoo, Flag_forSetMode,
                   MethodDecl(Id_Foo, T_void, <<Parm(Id_a, T_int)>>)>>
  /\ Definitions = <<MethodDefinition(Id_Foo, <<T_int>>, <<CastOfParam(T_Mode, "p1")>>)>>
  /\ Len(typeMetadata.flagDefs) = 2
  /\ ParamOverride(methods[1], 0) = Ts_FGFDMExecMode

\* Foo(int) is defined with a cast to a type that is no enum, Foo(double)
\* with a cast to Mode: the entry of Foo(int) is used and gives no override
C23_WitnessSignatureFirst ==
  /\ MetadataBuilt
  /\ classNode = <<AccessSpec("public"), Decl_Mode,
                   MethodDecl(Id_Foo, T_void, <<Parm(Id_a, T_int)>>)>>
  /\ Definitions = <<MethodDefinition(Id_Foo, <<T_double>>, <<CastOfParam(T_Mode, "p1")>>),
                     MethodDefinition(Id_Foo, <<T_int>>, <<CastOfParam(T_eRates, "p1")>>)>>
  /\ ParamOverride(methods[1], 0) = <<>>

\* the method meets the conditions of the Set rule, of the Get rule, for the
\* enum Mode of the class
MeetsSetRule(method) ==
  /\ method.name = <<"S","e","t">> \o Id_Mode
  /\ Len(method.params) = 1
  /\ rawToTsType(method.params[1].type, FALSE) = TsBuiltin("number")

MeetsGetRule(method) ==
  /\ method.name = <<"G","e","t">> \o Id_Mode
  /\ method.params = <<>>
  /\ rawToTsType(method.returnType, TRUE) = TsBuiltin("number")

ReturnOverride(method) ==
  IF methodKey(method) \in DOMAIN typeMetadata.returnTypeOverrides
    THEN typeMetadata.returnTypeOverrides[methodKey(method)] ELSE <<>>

\* no cast site and no flag group gives the first parameter an override
OnlyNamingRules(method) == ~ResolvedCastFor(method, 0) /\ ~FlagsDeclaredFor(method.name)

\* C24: a method named Set<enum> with exactly one parameter that would be
\* typed number has that parameter overridden to the target type of the
\* enum, a method named Get<enum> without parameters and with a return that
\* would be typed number has its return type overridden; a method that does
\* not meet these conditions gets no override from the rule.
C24_SetAndGetRuleExactly ==
  MetadataBuilt =>
    \A k \in DOMAIN methods :
      LET method == methods[k]
      IN /\ (OnlyNamingRules(method) /\ method.params # <<>>) =>
              ParamOverride(method, 0) = IF MeetsSetRule(method) THEN Ts_FGFDMExecMode ELSE <<>>
         /\ ReturnOverride(method) = IF MeetsGetRule(method) THEN Ts_FGFDMExecMode ELSE <<>>

\* C26: an override inferred from a cast in the body of one overload is not
\* applied to another overload of that name: a method of the header gets
\* cast-site overrides only from the definition with its own parameter types,
\* also when another overload has as many parameters.
C26_CastSiteOverridesOnlyFromOwnDefinition ==
  MetadataBuilt =>
    \A k \in DOMAIN methods :
      \A index \in 0..(Len(methods[k].params) - 1) :
        (/\ methods[k].name = Id_Foo
         /\ ~FlagsDeclaredFor(Id_Foo)
         /\ ParamOverride(methods[k], index) # <<>>) =>
          \E i \in DOMAIN CastsUnderSignature(methods[k]) :
            /\ CastsUnderSignature(methods[k])[i][1] = index
            /\ resolveEnumInfo(CastsUnderSignature(methods[k])[i][2], typeMetadata.enumLookup)
                 # NoEnum
            /\ resolveEnumInfo(CastsUnderSignature(methods[k])[i][2],
                               typeMetadata.enumLookup).tsName
                 = ParamOverride(methods[k], index)

\* C25: the fill cases of an overload group have pairwise distinct argument
\* counts, none of them is the total parameter count of an overload of the
\* group, and a call with the count of a fill case reaches the raw method with
\* as many arguments as the one overload that accepts the count has
\* parameters, every appended value being a recorded default.
C25_FillCasesDistinctAndComplete ==
  /\ \A g \in DispatchGroups :
       LET fillCases == sdkApiOut.members[g].body.fillCases
           overloads == sdkApiOut.groups[g].overloads
       IN /\ \A c, d \in DOMAIN fillCases :
                c # d => fillCases[c].providedArgCount # fillCases[d].providedArgCount
          /\ \A c \in DOMAIN fillCases :
                /\ \A o \in DOMAIN overloads :
                     fillCases[c].providedArgCount # Len(overloads[o].params)
                /\ Cardinality(Acceptors(g, fillCases[c].providedArgCount)) = 1
                /\ \A o \in Acceptors(g, fillCases[c].providedArgCount) :
                     RawCountFor(g, fillCases[c].providedArgCount) = Len(overloads[o].params)
                /\ \A i \in DOMAIN fillCases[c].defaultValues :
                     fillCases[c].defaultValues[i] # NoDefault
  /\ (Called /\ CalledGroup \in DispatchGroups
         /\ FillCasesAt(CalledGroup, Len(lastCall.args)) # {}) =>
       \A o \in Acceptors(CalledGroup, Len(lastCall.args)) :
          /\ Len(lastCall.rawArgs) = Len(sdkApiOut.groups[CalledGroup].overloads[o].params)
          /\ \A i \in (Len(lastCall.args) + 1)..Len(lastCall.rawArgs) :
               lastCall.rawArgs[i] \notin {NoDefault, Undefined}

\* a call that met a fill case, in a group with an overload of another
\* parameter count, got the defaults appended
C25_Witness ==
  /\ Called
  /\ CalledGroup \in DispatchGroups
  /\ FillCasesAt(CalledGroup, Len(lastCall.args)) # {}
  /\ Len(lastCall.rawArgs) > Len(lastCall.args)
  /\ \E o \in DOMAIN sdkApiOut.groups[CalledGroup].overloads :
        Len(sdkApiOut.groups[CalledGroup].overloads[o].params) # Len(lastCall.rawArgs)
  /\ \A i \in (Len(lastCall.args) + 1)..Len(lastCall.rawArgs) : lastCall.rawArgs[i] # NoDefault

\* the types that are candidates for enums: the types of the casts of
\* parameters in the implementation file, and the parameter and return types
\* of the methods that look like names of enums
CastSiteCandidates ==
  {CastsOf(Definitions[i])[c][2] : i \in DOMAIN Definitions, c \in {1}}

HeuristicCandidateSet ==
  {type \in UNION {{methods[k].returnType} \cup Range(MethodTypes(methods[k])) :
                     k \in DOMAIN methods} :
     maybeLooksLikeEnumTypeName(type)}

\* C27: when buildTypeMetadata has returned, every candidate type, from the
\* cast sites and from the naming heuristic, is found through the enum lookup
\* or is in the unresolved set; none is dropped, also not one whose resolved
\* definition was rejected as a duplicate of a definition already held.
C27_EveryCandidateResolvedOrUnresolved ==
  MetadataBuilt =>
    \A candidate \in CastSiteCandidates \cup HeuristicCandidateSet :
      \/ resolveEnumInfo(candidate, typeMetadata.enumLookup) # NoEnum
      \/ candidate \in typeMetadata.unresolvedEnumTypes

-----------------------------------------------------------------------------
\* WasmVfsManager: the runtime tree, the IDBFS mount and the store behind it

MaxCalls == 3

Paths == {"aircraft"}

Contents == {1, 2}

Trees == UNION {[present -> Contents] : present \in SUBSET Paths}

UnavailableMessage == "IDBFS is unavailable in this environment."

NotMountedMessage == "IDBFS is not mounted."

SyncfsError == "syncfs failed"

toolVars == <<compilers, fsFailure, tmpDirs, probePc, spawned, probeResult, output, parsed,
             implementationAst>>

Pending(call) == call.pc \in {"awaitSyncfs", "synced"}

\* a call of one of the three asynchronous methods, as it stands after its
\* synchronous part; a syncToPersistence remembers the runtime tree it was
\* called on and what it resolved on
Call(op, callPc, error, populate) ==
  [op |-> op, pc |-> callPc, error |-> error, populate |-> populate,
   runtimeAtCall |-> IF op = "syncToPersistence" THEN runtimeTree ELSE EmptyMap,
   overlapped |-> \E i \in 1..Len(calls) : Pending(calls[i]) /\ calls[i].op = "syncToPersistence",
   storeAtResolve |-> EmptyMap, runtimeAtResolve |-> EmptyMap]

\* a later write or a later call overlaps every syncToPersistence still pending
Overlapping(callSeq) ==
  [i \in 1..Len(callSeq) |->
     IF Pending(callSeq[i]) /\ callSeq[i].op = "syncToPersistence"
       THEN [callSeq[i] EXCEPT !.overlapped = TRUE]
       ELSE callSeq[i]]

MountsAlways(mounted) == TRUE

\* enablePersistence mounts only when this manager has not mounted yet
MustMount(mounted) == ~mounted

SyncStartsAlways(mounted) == TRUE

\* syncFromPersistence and syncToPersistence go on only when mounted
SyncMayStart(mounted) == mounted

hasIdbfsSupport == idbfsSupport

\* removeTree of every child of the target, then copyTree of every child of the source
ReplaceChildren(source) == source

WriteRuntimeFile(path, data) ==
  /\ runtimeTree' = MapSet(runtimeTree, path, data)
  /\ calls' = Overlapping(calls)
  /\ UNCHANGED <<idbfsSupport, idbMounted, mountCount, mountTree, store>>
  /\ UNCHANGED <<generatorVars, toolVars, sdkVars>>

\* enablePersistence up to the await inside the syncFromPersistence it calls
EnablePersistenceCall ==
  IF ~hasIdbfsSupport
    THEN /\ calls' = Overlapping(calls) \o <<Call("enablePersistence", "rejected", UnavailableMessage, TRUE)>>
         /\ UNCHANGED <<idbMounted, mountCount>>
    ELSE /\ IF MustMount(idbMounted)
              THEN /\ mountCount' = mountCount + 1
                   /\ idbMounted' = TRUE
              ELSE UNCHANGED <<idbMounted, mountCount>>
         /\ calls' = Overlapping(calls) \o
              <<IF SyncMayStart(idbMounted')
                  THEN Call("enablePersistence", "awaitSyncfs", "none", TRUE)
                  ELSE Call("enablePersistence", "rejected", NotMountedMessage, TRUE)>>

EnablePersistence ==
  /\ Len(calls) < MaxCalls
  /\ EnablePersistenceCall
  /\ UNCHANGED <<idbfsSupport, runtimeTree, mountTree, store>>
  /\ UNCHANGED <<generatorVars, toolVars, sdkVars>>

\* syncFromPersistence up to its await
SyncFromPersistence ==
  /\ Len(calls) < MaxCalls
  /\ calls' = Overlapping(calls) \o
       <<IF SyncMayStart(idbMounted)
           THEN Call("syncFromPersistence", "awaitSyncfs", "none", TRUE)
           ELSE Call("syncFromPersistence", "rejected", NotMountedMessage, TRUE)>>
  /\ UNCHANGED <<idbfsSupport, idbMounted, mountCount, runtimeTree, mountTree, store>>
  /\ UNCHANGED <<generatorVars, toolVars, sdkVars>>

\* syncToPersistence up to its await: the mount is rebuilt from the runtime tree
SyncToPersistence ==
  /\ Len(calls) < MaxCalls
  /\ IF SyncMayStart(idbMounted)
       THEN /\ mountTree' = ReplaceChildren(runtimeTree)
            /\ calls' = Overlapping(calls) \o
                 <<Call("syncToPersistence", "awaitSyncfs", "none", FALSE)>>
       ELSE /\ calls' = Overlapping(calls) \o
                 <<Call("syncToPersistence", "rejected", NotMountedMessage, FALSE)>>
            /\ UNCHANGED mountTree
  /\ UNCHANGED <<idbfsSupport, idbMounted, mountCount, runtimeTree, store>>
  /\ UNCHANGED <<generatorVars, toolVars, sdkVars>>

\* fs.syncfs of call i does its transfer and calls back without an error
SyncfsDone(i) ==
  /\ i \in 1..Len(calls)
  /\ calls[i].pc = "awaitSyncfs"
  /\ IF calls[i].populate
       THEN mountTree' = store /\ UNCHANGED store
       ELSE store' = mountTree /\ UNCHANGED mountTree
  /\ calls' = [calls EXCEPT ![i].pc = "synced"]
  /\ UNCHANGED <<idbfsSupport, idbMounted, mountCount, runtimeTree>>
  /\ UNCHANGED <<generatorVars, toolVars, sdkVars>>

\* fs.syncfs of call i calls back with an error: the promise of the call rejects
SyncfsFails(i) ==
  /\ i \in 1..Len(calls)
  /\ calls[i].pc = "awaitSyncfs"
  /\ calls' = [calls EXCEPT ![i].pc = "rejected", ![i].error = SyncfsError]
  /\ UNCHANGED <<idbfsSupport, idbMounted, mountCount, runtimeTree, mountTree, store>>
  /\ UNCHANGED <<generatorVars, toolVars, sdkVars>>

\* what follows the await in call i
AfterSyncfs(i) ==
  /\ i \in 1..Len(calls)
  /\ calls[i].pc = "synced"
  /\ IF calls[i].populate
       THEN runtimeTree' = ReplaceChildren(mountTree)
       ELSE UNCHANGED runtimeTree
  /\ calls' = IF calls[i].populate
                THEN [calls EXCEPT ![i].pc = "resolved"]
                ELSE [calls EXCEPT ![i].pc = "resolved",
                                   ![i].storeAtResolve = store,
                                   ![i].runtimeAtResolve = runtimeTree]
  /\ UNCHANGED <<idbfsSupport, idbMounted, mountCount, mountTree, store>>
  /\ UNCHANGED <<generatorVars, toolVars, sdkVars>>

NextVfs ==
  \/ \E path \in Paths, data \in Contents : WriteRuntimeFile(path, data)
  \/ EnablePersistence
  \/ SyncFromPersistence
  \/ SyncToPersistence
  \/ \E i \in 1..MaxCalls : SyncfsDone(i)
  \/ \E i \in 1..MaxCalls : SyncfsFails(i)
  \/ \E i \in 1..MaxCalls : AfterSyncfs(i)

\* the generator runs no compiler
ToolsAtRest ==
  /\ compilers = <<>>
  /\ fsFailure = "none"
  /\ tmpDirs = {}
  /\ probePc = "idle"
  /\ spawned = <<>>
  /\ probeResult = NoAst
  /\ output = <<>>
  /\ parsed = NoAst
  /\ implementationAst = NoAst

\* a manager just constructed over a store that may hold files of an earlier session
InitVfs ==
  /\ GeneratorAtRest
  /\ ToolsAtRest
  /\ SdkAtRest
  /\ idbfsSupport \in BOOLEAN
  /\ idbMounted = FALSE
  /\ mountCount = 0
  /\ runtimeTree = EmptyMap
  /\ mountTree = EmptyMap
  /\ store \in Trees
  /\ calls = <<>>

SpecVfs == InitVfs /\ [][NextVfs]_vars

HoldsFilesOf(held, kept) ==
  \A path \in DOMAIN kept : path \in DOMAIN held /\ held[path] = kept[path]

\* C28: once a syncToPersistence has resolved that no write, no later call and
\* no other syncToPersistence overlapped (only earlier syncFromPersistence or
\* enablePersistence calls still pending), the store holds exactly the runtime
\* tree as it was when the call was made, and the runtime tree still holds
\* those files.
C28_SyncToStoresRuntimeTreeAsCalled ==
  \A i \in 1..Len(calls) :
    (calls[i].op = "syncToPersistence" /\ calls[i].pc = "resolved" /\ ~calls[i].overlapped)
      => /\ calls[i].storeAtResolve = calls[i].runtimeAtCall
         /\ HoldsFilesOf(calls[i].runtimeAtResolve, calls[i].runtimeAtCall)

\* the call a step starts
StartsCall == Len(calls') = Len(calls) + 1

Started == calls'[Len(calls')]

\* C29: a syncFromPersistence or syncToPersistence called while IDBFS is not
\* mounted rejects with 'IDBFS is not mounted.' and changes no file; an
\* enablePersistence called where IDBFS is unavailable rejects without
\* mounting; a rejected call stays rejected; and whatever calls of
\* enablePersistence are made, overlapping or not, IDBFS is mounted at most once.
C29_UnmountedRejectsAndMountsOnce ==
  [][/\ (StartsCall /\ ~idbMounted
           /\ Started.op \in {"syncFromPersistence", "syncToPersistence"})
          => /\ Started.pc = "rejected"
             /\ Started.error = NotMountedMessage
             /\ UNCHANGED <<runtimeTree, mountTree, store, idbMounted, mountCount>>
     /\ (StartsCall /\ ~idbfsSupport /\ Started.op = "enablePersistence")
          => /\ Started.pc = "rejected"
             /\ Started.error = UnavailableMessage
             /\ UNCHANGED <<runtimeTree, mountTree, store, idbMounted, mountCount>>
     /\ \A i \in 1..Len(calls) :
          calls[i].pc = "rejected" => calls'[i] = calls[i]
     /\ mountCount' <= 1
     /\ idbMounted' = (mountCount' = 1)]_vars

\* a sync called before the mount was rejected, and two calls of
\* enablePersistence that are both still awaiting their pull have mounted once
C29_Witness ==
  /\ mountCount = 1
  /\ \E i \in 1..Len(calls) :
       /\ calls[i].op \in {"syncFromPersistence", "syncToPersistence"}
       /\ calls[i].pc = "rejected"
       /\ calls[i].error = NotMountedMessage
  /\ \E i, j \in 1..Len(calls) :
       /\ i < j
       /\ calls[i].op = "enablePersistence" /\ calls[i].pc = "awaitSyncfs"
       /\ calls[j].op = "enablePersistence" /\ calls[j].pc = "awaitSyncfs"

-----------------------------------------------------------------------------
\* JSBSimSdk.create: log entries of the runtime on their way to the instance

MaxEntries == 3

Streams == {"stdout", "stderr"}

\* the entries emitLog builds for the given prints, numbered in production order
EntriesAfter(count, streams) ==
  [k \in 1..Len(streams) |-> [id |-> count + k, stream |-> streams[k]]]

\* options.onLog?.(entry) in emitLog reaches the wrapper of create, which
\* calls the handler of the caller first, if there is one
OriginalOnLog(seen, entries) == IF options.onLog THEN seen \o entries ELSE seen

ReplayBufferedReversed(sent, buffered) ==
  sent \o [k \in 1..Len(buffered) |-> buffered[Len(buffered) + 1 - k]]

\* for (const entry of bufferedLogEntries) emitSdkLog(entry)
ReplayBuffered(sent, buffered) == sent \o buffered

\* the runtime prints a line with a message: emitLog, the wrapper, forwardLogEntry
RuntimePrints(stream) ==
  /\ createPc \in {"loading", "enabling", "created"}
  /\ Len(produced) < MaxEntries
  /\ LET entries == EntriesAfter(Len(produced), <<stream>>) IN
       /\ produced' = produced \o entries
       /\ userSeen' = OriginalOnLog(userSeen, entries)
       /\ IF emitSdkLog
            THEN dispatched' = dispatched \o entries /\ UNCHANGED bufferedLogEntries
            ELSE bufferedLogEntries' = bufferedLogEntries \o entries /\ UNCHANGED dispatched
  /\ UNCHANGED <<createPc, options, emitSdkLog, replayed>>
  /\ UNCHANGED <<generatorVars, toolVars, vfsVars>>

\* from new module.FGFDMExec() to return sdk, without an await: the
\* constructor and configurePaths may each print
ConstructAndReplay(ctorStreams, pathStreams) ==
  /\ Len(produced) + Len(ctorStreams) + Len(pathStreams) <= MaxEntries
  /\ LET ctorEntries == EntriesAfter(Len(produced), ctorStreams)
         pathEntries == EntriesAfter(Len(produced) + Len(ctorStreams), pathStreams)
         buffered == bufferedLogEntries \o ctorEntries
     IN /\ produced' = produced \o ctorEntries \o pathEntries
        /\ userSeen' = OriginalOnLog(userSeen, ctorEntries \o pathEntries)
        /\ emitSdkLog' = TRUE
        /\ dispatched' = ReplayBuffered(dispatched, buffered) \o pathEntries
        /\ replayed' = Len(buffered)
        /\ bufferedLogEntries' = <<>>
        /\ createPc' = "created"

PrintPool == {<<>>, <<"stdout">>, <<"stderr">>}

\* loadJSBSimModule resolves: the manager is made and, when persistence is
\* asked for, enablePersistence is called and awaited
ModuleLoaded ==
  /\ createPc = "loading"
  /\ IF options.persistence
       THEN /\ EnablePersistenceCall
            /\ createPc' = "enabling"
            /\ UNCHANGED <<idbfsSupport, runtimeTree, mountTree, store>>
            /\ UNCHANGED <<produced, bufferedLogEntries, emitSdkLog, dispatched, userSeen, replayed>>
       ELSE /\ \E ctorStreams \in PrintPool, pathStreams \in PrintPool :
                 ConstructAndReplay(ctorStreams, pathStreams)
            /\ UNCHANGED vfsVars
  /\ UNCHANGED options
  /\ UNCHANGED <<generatorVars, toolVars>>

\* loadJSBSimModule rejects (no factory, no module): create rejects
ModuleFails ==
  /\ createPc = "loading"
  /\ createPc' = "rejected"
  /\ UNCHANGED <<options, produced, bufferedLogEntries, emitSdkLog, dispatched, userSeen, replayed>>
  /\ UNCHANGED <<generatorVars, toolVars, vfsVars>>

\* the enablePersistence create awaits has settled
PersistenceSettled ==
  /\ createPc = "enabling"
  /\ calls # <<>>
  /\ \/ /\ calls[1].pc = "resolved"
        /\ \E ctorStreams \in PrintPool, pathStreams \in PrintPool :
             ConstructAndReplay(ctorStreams, pathStreams)
     \/ /\ calls[1].pc = "rejected"
        /\ createPc' = "rejected"
        /\ UNCHANGED <<produced, bufferedLogEntries, emitSdkLog, dispatched, userSeen, replayed>>
  /\ UNCHANGED options
  /\ UNCHANGED <<generatorVars, toolVars, vfsVars>>

NextSdk ==
  \/ \E stream \in Streams : RuntimePrints(stream)
  \/ ModuleLoaded
  \/ ModuleFails
  \/ \E i \in 1..MaxCalls : SyncfsDone(i)
  \/ \E i \in 1..MaxCalls : SyncfsFails(i)
  \/ \E i \in 1..MaxCalls : AfterSyncfs(i)
  \/ PersistenceSettled

\* create has been called and awaits loadJSBSimModule
InitSdk ==
  /\ GeneratorAtRest
  /\ ToolsAtRest
  /\ idbfsSupport \in BOOLEAN
  /\ idbMounted = FALSE
  /\ mountCount = 0
  /\ runtimeTree = EmptyMap
  /\ mountTree = EmptyMap
  /\ store \in Trees
  /\ calls = <<>>
  /\ createPc = "loading"
  /\ options \in [persistence : BOOLEAN, onLog : BOOLEAN]
  /\ produced = <<>>
  /\ bufferedLogEntries = <<>>
  /\ emitSdkLog = FALSE
  /\ dispatched = <<>>
  /\ userSeen = <<>>
  /\ replayed = 0

\* the event loop runs every continuation whose promise has settled, and the
\* module load and every fs.syncfs call back in the end
FairSdk ==
  /\ WF_vars(ModuleLoaded \/ ModuleFails)
  /\ WF_vars(\E i \in 1..MaxCalls : SyncfsDone(i) \/ SyncfsFails(i))
  /\ WF_vars(\E i \in 1..MaxCalls : AfterSyncfs(i))
  /\ WF_vars(PersistenceSettled)

SpecSdk == InitSdk /\ [][NextSdk]_vars /\ FairSdk

DispatchFollowsProduction ==
  /\ emitSdkLog = (createPc = "created")
  /\ ~emitSdkLog => dispatched = <<>> /\ bufferedLogEntries = produced
  /\ emitSdkLog => dispatched = produced /\ bufferedLogEntries = <<>>
  /\ \A k \in 1..Len(produced) : produced[k].id = k
  /\ options.onLog => userSeen = produced

\* C30: the entries handed to the listener dispatch of the instance are the
\* entries the runtime produced, each once and in production order: until
\* create sets emitSdkLog nothing is dispatched and every entry is in the
\* buffer, in order; from then on the buffer is empty and the dispatched
\* entries are all entries produced, the replayed ones before the ones
\* dispatched directly; the onLog handler of the caller, when there is one,
\* has received every entry; and every entry produced is dispatched in the
\* end, at its place in the production order, unless create rejects.
C30_EveryEntryDispatchedOnceInOrder ==
  /\ []DispatchFollowsProduction
  /\ \A k \in 1..MaxEntries :
       (Len(produced) >= k)
         ~> (createPc = "rejected" \/ (Len(dispatched) >= k /\ dispatched[k] = produced[k]))

\* create with persistence and an onLog handler has returned the instance
\* after replaying two buffered entries, and a later entry was dispatched directly
C30_Witness ==
  /\ createPc = "created"
  /\ options.persistence /\ options.onLog
  /\ replayed = 2
  /\ Len(dispatched) = 3
  /\ dispatched[1].stream # dispatched[2].stream

====
